---- MODULE Spec2Model ----
(***************************************************************************)
(* A model of the big-bang-simulator core: the evolution controller        *)
(* (src/src/simulation/universe.py) and the pure functions of the          *)
(* expansion solver, the thermal classifier and the abundance model it     *)
(* calls (src/src/core/*.py).                                              *)
(*                                                                         *)
(* Numbers.  Every Python float is modelled as a decimal floating-point    *)
(* number [m, e] of value m * 10^e with a four-digit mantissa              *)
(* (m = 0, or MantLo <= |m| < MantHi); every arithmetic operation rounds   *)
(* its exact result to the nearest such number, as IEEE arithmetic rounds  *)
(* to the nearest double.  The physical constants are the source's,        *)
(* rounded to four digits.                                                 *)
(***************************************************************************)
EXTENDS Integers, Sequences, FiniteSets, TLC

---------------------------------------------------------------------------
(* Decimal floating point                                                  *)

MantLo == 10^3
MantHi == 10^4

F(m, e) == [m |-> m, e |-> e]

Zero == F(0, 0)
One == F(1000, -3)

AbsInt(n) == IF n < 0 THEN -n ELSE n

SgnInt(n) == IF n < 0 THEN -1 ELSE IF n = 0 THEN 0 ELSE 1

\* Number of decimal digits of n > 0 beyond the mantissa width (n < 2^31).
ExtraDigits(n) ==
    CHOOSE k \in 0..6 : (k = 6 \/ n < MantHi * 10^k) /\ (k = 0 \/ n >= MantLo * 10^k)

\* Number of decimal digits a mantissa 0 < n < MantLo is short of.
MissingDigits(n) ==
    CHOOSE k \in 0..3 : n * 10^k >= MantLo /\ (k = 0 \/ n * 10^(k - 1) < MantLo)

\* The float nearest to n * 10^e, for an integer n >= 0.
\* n * 10^e with k digits appended, and with k digits rounded away.
ShiftUp(n, e, k) == F(n * 10^k, e - k)
Carry(r, e) == IF r >= MantHi THEN F(MantLo, e + 1) ELSE F(r, e)
ShiftDown(n, e, k) ==
    Carry(IF k = 0 THEN n ELSE (n + 5 * 10^(k - 1)) \div 10^k, e + k)

RoundPos(n, e) ==
    IF n = 0 THEN Zero
    ELSE IF n < MantLo THEN ShiftUp(n, e, MissingDigits(n))
    ELSE ShiftDown(n, e, ExtraDigits(n))

FNeg(x) == F(-x.m, x.e)

\* The float nearest to n * 10^e, for any integer n.
Round(n, e) == IF n < 0 THEN FNeg(RoundPos(-n, e)) ELSE RoundPos(n, e)

FAbs(x) == F(AbsInt(x.m), x.e)

FMul(x, y) == Round(x.m * y.m, x.e + y.e)

\* x / y for y # 0 (the callers decide what a zero divisor does).
FDiv(x, y) ==
    LET q == (AbsInt(x.m) * 10^5) \div AbsInt(y.m)
        p == RoundPos(q, x.e - y.e - 5)
    IN  IF SgnInt(x.m) * SgnInt(y.m) < 0 THEN FNeg(p) ELSE p

FAdd(x, y) ==
    IF x.m = 0 THEN y
    ELSE IF y.m = 0 THEN x
    ELSE LET hi == IF x.e >= y.e THEN x ELSE y
             lo == IF x.e >= y.e THEN y ELSE x
             d  == hi.e - lo.e
         IN  IF d > 5 THEN hi ELSE Round(hi.m * 10^d + lo.m, lo.e)

FSub(x, y) == FAdd(x, FNeg(y))

\* x < y, exactly: by sign, then by exponent, then by mantissa.
FLt(x, y) ==
    IF x.m = 0 \/ y.m = 0 \/ (x.m < 0) # (y.m < 0) \/ x.e = y.e THEN x.m < y.m
    ELSE IF x.m > 0 THEN x.e < y.e ELSE x.e > y.e

FGt(x, y) == FLt(y, x)

FLe(x, y) == ~FLt(y, x)

FGe(x, y) == ~FLt(x, y)

FMax(x, y) == IF FLt(x, y) THEN y ELSE x

FMin(x, y) == IF FLt(y, x) THEN y ELSE x

\* floor(sqrt(n)) for 0 <= n < 31700^2: the hundreds first, then the units.
ISqrtFrom(n, lo) == CHOOSE r \in lo..(lo + 99) : r * r <= n /\ n < (r + 1) * (r + 1)
ISqrt(n) ==
    ISqrtFrom(n, 100 * (CHOOSE q \in 0..316 :
                           (100 * q) * (100 * q) <= n /\ n < (100 * q + 100) * (100 * q + 100)))

\* sqrt(x) for x >= 0.
FSqrt(x) ==
    IF x.m = 0 THEN Zero
    ELSE LET odd == (x.e % 2) = 1
             m2  == IF odd THEN x.m * 10 ELSE x.m
             e2  == IF odd THEN x.e - 1 ELSE x.e
         IN  RoundPos(ISqrt(m2 * 10^4), (e2 - 4) \div 2)

\* x ** n for an integer n >= 1, by repeated multiplication: `power` is
\* x ** k with n - k multiplications to go.
RECURSIVE PowFrom(_, _, _)
PowFrom(power, x, n) ==
    IF n = 1 THEN power
    ELSE IF power.m = 0 THEN Zero
    ELSE PowFrom(FMul(x, power), x, n - 1)

FPow(x, n) == PowFrom(x, x, n)

\* A statement `name = value` followed by the statements that use the name:
\* the value is computed once, when the statement runs.
Computed(value, Rest(_)) == CHOOSE result \in { Rest(v) : v \in {value} } : TRUE

\* The floats that are no numbers, and the largest finite double.
NaN == [special |-> "nan"]
PosInf == [special |-> "inf"]
NegInf == [special |-> "-inf"]
FloatMax == F(1797, 305)

IsFinite(x) == x \notin {NaN, PosInf, NegInf}

\* A quotient as a double: beyond FloatMax it is an infinity, below half
\* the smallest subnormal (4.94e-324) it is zero.
InRange(q) ==
    IF FGt(FAbs(q), FloatMax) THEN (IF q.m > 0 THEN PosInf ELSE NegInf)
    ELSE IF FLt(FAbs(q), F(2470, -327)) THEN Zero
    ELSE q

\* Python's x <= 0 and x < 0: every comparison with NaN is false.
LeZero(x) == IF x = NaN \/ x = PosInf THEN FALSE ELSE IF x = NegInf THEN TRUE ELSE FLe(x, Zero)
LtZero(x) == IF x = NaN \/ x = PosInf THEN FALSE ELSE IF x = NegInf THEN TRUE ELSE FLt(x, Zero)

\* Python's x / y for a finite x and any y but zero.
float_div(x, y) ==
    IF y = NaN THEN NaN
    ELSE IF y \in {PosInf, NegInf} THEN Zero
    ELSE InRange(FDiv(x, y))

\* numpy's float64 arithmetic, which raises nothing: NaN in gives NaN out,
\* inf - inf, 0 * inf and inf / inf are NaN.
SignOf(x) == IF x = PosInf THEN 1 ELSE IF x = NegInf THEN -1 ELSE SgnInt(x.m)
InfOf(sgn) == IF sgn > 0 THEN PosInf ELSE NegInf

np_neg(x) ==
    IF x = NaN THEN NaN ELSE IF x = PosInf THEN NegInf ELSE IF x = NegInf THEN PosInf
    ELSE FNeg(x)

np_mul(x, y) ==
    IF x = NaN \/ y = NaN THEN NaN
    ELSE IF IsFinite(x) /\ IsFinite(y) THEN FMul(x, y)
    ELSE IF SignOf(x) * SignOf(y) = 0 THEN NaN
    ELSE InfOf(SignOf(x) * SignOf(y))

np_add(x, y) ==
    IF x = NaN \/ y = NaN THEN NaN
    ELSE IF IsFinite(x) /\ IsFinite(y) THEN FAdd(x, y)
    ELSE IF IsFinite(x) THEN y
    ELSE IF IsFinite(y) \/ x = y THEN x
    ELSE NaN

np_sub(x, y) == np_add(x, np_neg(y))

\* x / y for y # 0
np_div(x, y) ==
    IF x = NaN \/ y = NaN THEN NaN
    ELSE IF IsFinite(x) /\ IsFinite(y) THEN FDiv(x, y)
    ELSE IF IsFinite(x) THEN Zero
    ELSE IF IsFinite(y) THEN InfOf(SignOf(x) * SignOf(y))
    ELSE NaN

\* An exception raised in place of a value.
Raised(exception) == [raised |-> exception]

---------------------------------------------------------------------------
(* Expansion solver: src/src/core/friedmann.py                             *)

\* CosmologicalParameters defaults.  The density fractions are held in
\* parts per million, so that the validation sum below is exact.
G == F(6674, -14)
H0 == F(2184, -21)
Omega_m0 == 315000
Omega_r0 == 92
Omega_lambda0 == 685000
Omega_k0 == 0
rho_crit_0 == F(8500, -30)

np_pi == F(3142, -3)

\* A fraction given in parts per million, as a float.
Ppm(p) == Round(p, -6)

DefaultParameters ==
    [Omega_m0 |-> Omega_m0, Omega_r0 |-> Omega_r0,
     Omega_lambda0 |-> Omega_lambda0, Omega_k0 |-> Omega_k0]

\* CosmologicalParameters.__post_init__: TRUE iff construction raises
\* ValueError.  (The critical-density check only prints a warning.)
\* The validation with the tolerance itself rejected.
RaisesAtTolerance(p) ==
    AbsInt(p.Omega_m0 + p.Omega_r0 + p.Omega_lambda0 + p.Omega_k0 - 1000000) >= 1000

PostInitRaises(p) ==
    LET total == p.Omega_m0 + p.Omega_r0 + p.Omega_lambda0 + p.Omega_k0
    IN  AbsInt(total - 1000000) > 1000

\* FriedmannSolver.__init__: physical densities today.
rho_today(Omega) == FMul(Ppm(Omega), rho_crit_0)
rho_m0 == rho_today(Omega_m0)
rho_r0 == rho_today(Omega_r0)
rho_lambda0 == rho_today(Omega_lambda0)

\* rho0 / a**3 and rho0 / a**4, for the solver of any parameter set.
MatterDensity(rho0, a) == FDiv(rho0, FPow(a, 3))
RadiationDensity(rho0, a) == FDiv(rho0, FPow(a, 4))

\* Matter diluted as an area instead of a volume.
DensityMatterSquare(a) == FDiv(rho_m0, FPow(a, 2))

density_matter(a) == MatterDensity(rho_m0, a)

density_radiation(a) == RadiationDensity(rho_r0, a)

density_dark_energy(a) == rho_lambda0

total_density(a) ==
    FAdd(FAdd(density_matter(a), density_radiation(a)), density_dark_energy(a))

hubble_parameter(a) ==
    Computed(total_density(a), LAMBDA rho :
    Computed(FDiv(FMul(FMul(F(8000, -3), np_pi), G), F(3000, -3)), LAMBDA coeff :
    Computed(FMul(coeff, rho), LAMBDA H_flat :
    Computed(IF Omega_k0 # 0
             THEN FSub(H_flat, FDiv(FMul(Ppm(Omega_k0), FPow(H0, 2)), FPow(a, 2)))
             ELSE H_flat, LAMBDA H_squared :
        FSqrt(FMax(H_squared, Zero))))))

\* find_matter_radiation_equality of the solver constructed with p:
\* t_eq = 2 / (3 * H0 * sqrt(Omega_r0)) * a_eq**2
EqualityAt(p, a_eq) ==
    [a_eq |-> a_eq,
     t_eq |-> FMul(FDiv(F(2000, -3),
                        FMul(FMul(F(3000, -3), H0), FSqrt(Ppm(p.Omega_r0)))),
                   FPow(a_eq, 2))]

\* The quotient taken the other way round.
EqualityInverted(p) ==
    EqualityAt(p, FDiv(rho_today(p.Omega_m0), rho_today(p.Omega_r0)))

find_matter_radiation_equality(p) ==
    EqualityAt(p, FDiv(rho_today(p.Omega_r0), rho_today(p.Omega_m0)))

\* A list written out from a function on 1..n.
ListOf(f, n) == SubSeq(f, 1, n)

\* An exception raised with a message.
RaisedWith(exception, message) == [raised |-> exception, message |-> message]
IsRaise(result) == "raised" \in DOMAIN result

\* FriedmannSolver.solve after solve_ivp has reported: the histories the
\* object holds afterwards and what the call returns or raises.
Solved(t, a, H, rho_m, rho_r, rho_lambda) ==
    [solver |->
        [time_history |-> t, scale_factor_history |-> a, hubble_history |-> H,
         density_history |->
            [matter |-> rho_m, radiation |-> rho_r, dark_energy |-> rho_lambda,
             total |-> ListOf([i \in 1..Len(t) |->
                                 FAdd(FAdd(rho_m[i], rho_r[i]), rho_lambda[i])], Len(t))]],
     reply |->
        [time |-> t, scale_factor |-> a, hubble |-> H,
         densities |->
            [matter |-> rho_m, radiation |-> rho_r, dark_energy |-> rho_lambda,
             total |-> ListOf([i \in 1..Len(t) |->
                                 FAdd(FAdd(rho_m[i], rho_r[i]), rho_lambda[i])], Len(t))],
         success |-> TRUE]]

Derived(t, a) ==
    Solved(t, a,
           ListOf([i \in 1..Len(a) |-> hubble_parameter(a[i])], Len(a)),
           ListOf([i \in 1..Len(a) |-> density_matter(a[i])], Len(a)),
           ListOf([i \in 1..Len(a) |-> density_radiation(a[i])], Len(a)),
           ListOf([i \in 1..Len(a) |-> density_dark_energy(a[i])], Len(a)))

\* solve without the test of solution.success.
SolveUnchecked(s, solution) == Derived(solution.t, solution.y)

\* s: the histories before the call; solution: what solve_ivp returned.
solve(s, solution) ==
    IF ~solution.success
    THEN [solver |-> s,
          reply |-> RaisedWith("RuntimeError", <<"ODE solver failed: ", solution.message>>)]
    ELSE Derived(solution.t, solution.y)

\* validate_solution, check 1: the indices whose stored Hubble value is
\* off hubble_parameter of the stored scale factor by more than 1e-4.
RelativeError(H_computed, H_expected) ==
    FDiv(FAbs(FSub(H_computed, H_expected)), H_expected)

violations(s) ==
    { i \in 1..Len(s.time_history) :
        FGt(RelativeError(s.hubble_history[i], hubble_parameter(s.scale_factor_history[i])),
            F(1000, -7)) }

\* Checks 2 and 3: the density ratio between the first and the middle
\* point against (a0 / a_mid) ** n.
ScalingHolds(expected_ratio, actual_ratio) ==
    FLt(FDiv(FAbs(FSub(expected_ratio, actual_ratio)), expected_ratio), F(1000, -5))

ScalingCheck(a0, a_mid, rho_0, rho_mid, n) ==
    ScalingHolds(FPow(FDiv(a0, a_mid), n), FDiv(rho_0, rho_mid))

Middle(s) == Len(s.time_history) \div 2 + 1

\* What validate_solution returns, and what it prints of each check
\* (TRUE for the line with the check mark).
validate_solution(s) ==
    IF Len(s.time_history) = 0
    THEN [returned |-> FALSE, printed |-> << >>]
    ELSE [returned |-> violations(s) = {},
          printed |->
            << violations(s) = {},
               ScalingCheck(s.scale_factor_history[1], s.scale_factor_history[Middle(s)],
                            s.density_history.matter[1], s.density_history.matter[Middle(s)], 3),
               ScalingCheck(s.scale_factor_history[1], s.scale_factor_history[Middle(s)],
                            s.density_history.radiation[1],
                            s.density_history.radiation[Middle(s)], 4) >>]

---------------------------------------------------------------------------
(* Thermal classifier: src/src/core/thermodynamics.py                      *)

eV_to_K == F(1160, 1)

\* temperature_from_scale_factor with the guard a < 0.
TemperatureGuardedBelowZero(a, T_today) ==
    IF LtZero(a) THEN Raised("ValueError")
    ELSE IF a = Zero THEN Raised("ZeroDivisionError")
    ELSE float_div(T_today, a)

temperature_from_scale_factor(a, T_today) ==
    IF LeZero(a) THEN Raised("ValueError") ELSE float_div(T_today, a)

scale_factor_from_temperature(T, T_today) ==
    IF LeZero(T) THEN Raised("ValueError") ELSE float_div(T_today, T)

temperature_to_energy_eV(T) == FDiv(T, eV_to_K)

\* The chain with every threshold included in the band above it.
EpochAtOrAbove(T_eV) ==
    IF FGe(T_eV, F(1000, 24)) THEN "Planck"
    ELSE IF FGe(T_eV, F(1000, 20)) THEN "GUT"
    ELSE IF FGe(T_eV, F(8000, 7)) THEN "Electroweak"
    ELSE IF FGe(T_eV, F(1500, 5)) THEN "QCD"
    ELSE IF FGe(T_eV, F(1000, 3)) THEN "Lepton"
    ELSE IF FGe(T_eV, F(1000, 2)) THEN "Nucleosynthesis"
    ELSE IF FGe(T_eV, F(1000, -3)) THEN "Matter-Radiation Equality"
    ELSE IF FGe(T_eV, F(2500, -4)) THEN "Recombination"
    ELSE "Matter-Dominated"

\* The chain with the labels of two neighbouring bands exchanged.
EpochLabelsSwapped(T_eV) ==
    IF FGt(T_eV, F(1000, 24)) THEN "Planck"
    ELSE IF FGt(T_eV, F(1000, 20)) THEN "GUT"
    ELSE IF FGt(T_eV, F(8000, 7)) THEN "QCD"
    ELSE IF FGt(T_eV, F(1500, 5)) THEN "Electroweak"
    ELSE IF FGt(T_eV, F(1000, 3)) THEN "Lepton"
    ELSE IF FGt(T_eV, F(1000, 2)) THEN "Nucleosynthesis"
    ELSE IF FGt(T_eV, F(1000, -3)) THEN "Matter-Radiation Equality"
    ELSE IF FGt(T_eV, F(2500, -4)) THEN "Recombination"
    ELSE "Matter-Dominated"

\* The chain of comparisons of identify_epoch on T_eV.
EpochOfEnergy(T_eV) ==
    IF FGt(T_eV, F(1000, 24)) THEN "Planck"
    ELSE IF FGt(T_eV, F(1000, 20)) THEN "GUT"
    ELSE IF FGt(T_eV, F(8000, 7)) THEN "Electroweak"
    ELSE IF FGt(T_eV, F(1500, 5)) THEN "QCD"
    ELSE IF FGt(T_eV, F(1000, 3)) THEN "Lepton"
    ELSE IF FGt(T_eV, F(1000, 2)) THEN "Nucleosynthesis"
    ELSE IF FGt(T_eV, F(1000, -3)) THEN "Matter-Radiation Equality"
    ELSE IF FGt(T_eV, F(2500, -4)) THEN "Recombination"
    ELSE "Matter-Dominated"

identify_epoch(T) == EpochOfEnergy(temperature_to_energy_eV(T))

\* ThermodynamicsEngine.__init__: particle masses in eV.
particle_masses ==
    << [particle |-> "electron",  mass_eV |-> F(5110, 2)],
       [particle |-> "muon",      mass_eV |-> F(1057, 5)],
       [particle |-> "pion",      mass_eV |-> F(1400, 5)],
       [particle |-> "proton",    mass_eV |-> F(9383, 5)],
       [particle |-> "tau",       mass_eV |-> F(1777, 6)],
       [particle |-> "W_boson",   mass_eV |-> F(8040, 7)],
       [particle |-> "Z_boson",   mass_eV |-> F(9120, 7)],
       [particle |-> "Higgs",     mass_eV |-> F(1250, 8)],
       [particle |-> "top_quark", mass_eV |-> F(1730, 8)] >>

\* The dict built from a table of (particle, active) pairs.
DictOf(table) ==
    [name \in { table[i].particle : i \in 1..Len(table) } |->
        LET i == CHOOSE k \in 1..Len(table) : table[k].particle = name
        IN  table[i].active]

\* The loop of get_active_particles with >= in place of >.
ActiveAtOrAbove(T) ==
    DictOf([i \in 1..Len(particle_masses) |->
              [particle |-> particle_masses[i].particle,
               active |-> FGe(temperature_to_energy_eV(T),
                              FDiv(particle_masses[i].mass_eV, F(3000, -3)))]])

get_active_particles(T) ==
    DictOf([i \in 1..Len(particle_masses) |->
              [particle |-> particle_masses[i].particle,
               active |-> FGt(temperature_to_energy_eV(T),
                              FDiv(particle_masses[i].mass_eV, F(3000, -3)))]])

\* get_thermodynamic_state: the two entries the controller reads
\* (temperature_K and epoch), at T_today = 2.725.
ThermodynamicStateAt(T) == [temperature_K |-> T, epoch |-> identify_epoch(T)]

get_thermodynamic_state(a) ==
    ThermodynamicStateAt(temperature_from_scale_factor(a, F(2725, -3)))

---------------------------------------------------------------------------
(* Abundance model: src/src/core/nucleosynthesis.py                        *)

delta_m == F(1293, -3)
tau_n == F(8794, -1)

\* exp(y) for y >= 0: the power series, summed until a term no longer
\* changes the sum.
RECURSIVE ExpSeries(_, _, _, _), ExpNext(_, _, _, _, _)
ExpSeries(y, k, term, sum) == ExpNext(y, k, term, sum, FAdd(sum, term))
ExpNext(y, k, term, sum, next) ==
    IF next = sum THEN sum
    ELSE ExpSeries(y, k + 1, FDiv(FMul(term, y), Round(k + 1, 0)), next)

\* np.exp(x): inf above 709.78 and 0.0 below -745.13.
np_exp(x) ==
    IF FGt(x, F(7097, -1)) THEN PosInf
    ELSE IF FLt(x, F(-7451, -1)) THEN Zero
    ELSE IF x.m = 0 THEN One
    ELSE IF x.m > 0 THEN ExpSeries(x, 1, x, One)
    ELSE FDiv(One, ExpSeries(FNeg(x), 1, FNeg(x), One))

neutron_proton_ratio(T_MeV) ==
    IF FLe(T_MeV, Zero) THEN Zero ELSE np_exp(FNeg(FDiv(delta_m, T_MeV)))

freeze_out_ratio(T_freeze_MeV) == neutron_proton_ratio(T_freeze_MeV)

\* X_n = n_p / (1 + n_p), X_p = 1 / (1 + n_p)
FractionsOf(n_p_current) ==
    [neutron_frac |-> np_div(n_p_current, np_add(One, n_p_current)),
     proton_frac |-> np_div(One, np_add(One, n_p_current))]

neutron_fraction_with_decay(n_p_initial, time_elapsed) ==
    FractionsOf(np_mul(n_p_initial, np_exp(FDiv(FNeg(time_elapsed), tau_n))))

helium4_mass_fraction(neutron_fraction) == np_mul(F(2000, -3), neutron_fraction)

hydrogen_mass_fraction(helium4_fraction) == np_sub(One, helium4_fraction)

\* deuterium_abundance() at the default eta:
\* 2.6e-5 * (6.1e-10 / 6e-10) ** (-1.6) = 2.532e-5
deuterium_abundance == F(2532, -8)

\* calculate_abundances: the dictionary returned, from the ratio at
\* freeze-out (step 1), the fractions after decay (step 2) and Y_He4.
AbundancesOf(n_p_freeze, fractions, Y_He4) ==
    [H |-> hydrogen_mass_fraction(Y_He4),
     He4 |-> Y_He4,
     D_H |-> deuterium_abundance,
     n_p_freeze |-> n_p_freeze,
     X_n_final |-> fractions.neutron_frac,
     X_p_final |-> fractions.proton_frac]

AbundancesAfterDecay(n_p_freeze, fractions) ==
    AbundancesOf(n_p_freeze, fractions, helium4_mass_fraction(fractions.neutron_frac))

AbundancesAfterFreeze(n_p_freeze, time_to_nucleosynthesis) ==
    AbundancesAfterDecay(n_p_freeze,
                         neutron_fraction_with_decay(n_p_freeze, time_to_nucleosynthesis))

\* T_nuc_start_MeV is not read.
calculate_abundances(T_freeze_MeV, T_nuc_start_MeV, time_to_nucleosynthesis) ==
    AbundancesAfterFreeze(freeze_out_ratio(T_freeze_MeV), time_to_nucleosynthesis)

---------------------------------------------------------------------------
(* Density field: numpy arrays of shape (grid_size, grid_size, grid_size), *)
(* held as sequences of NCells floats in C order.  The controller model    *)
(* carries a field of GridSize cells per edge in place of the full grid;   *)
(* which edge lengths the constructor accepts is modelled on the shapes    *)
(* alone, under SpecConstruction.                                          *)

GridSize == 3

NCells == GridSize * GridSize * GridSize

CellIds == 1..NCells

\* Coordinate of cell n along axis ax (0, 1, 2).
Coord(n, ax) ==
    IF ax = 0 THEN (n - 1) \div (GridSize * GridSize)
    ELSE IF ax = 1 THEN ((n - 1) \div GridSize) % GridSize
    ELSE (n - 1) % GridSize

Stride(ax) == IF ax = 0 THEN GridSize * GridSize ELSE IF ax = 1 THEN GridSize ELSE 1

\* scipy.ndimage mode='reflect' (d c b a | a b c d | d c b a).
Reflect(i) ==
    LET p == i % (2 * GridSize)
    IN  IF p < GridSize THEN p ELSE 2 * GridSize - 1 - p

\* The cell d places from n along axis ax, reflected at the boundary.
Shifted(n, ax, d) == n + (Reflect(Coord(n, ax) + d) - Coord(n, ax)) * Stride(ax)

\* Statements run in program order: each value is computed before the next,
\* and the last is the result.
InOrder(values) == values[Len(values)]

\* An array is stored as its cells: the function is evaluated cell by cell.
Array(f) == SubSeq(f, 1, NCells)

np_abs(arr) == Array([n \in CellIds |-> FAbs(arr[n])])

\* Reductions over the cells lo..hi, by halving (numpy sums pairwise).
RECURSIVE SumOver(_, _, _)
SumOver(arr, lo, hi) ==
    IF lo = hi THEN arr[lo]
    ELSE LET mid == (lo + hi) \div 2
         IN  FAdd(SumOver(arr, lo, mid), SumOver(arr, mid + 1, hi))

RECURSIVE MaxOver(_, _, _)
MaxOver(arr, lo, hi) ==
    IF lo = hi THEN arr[lo]
    ELSE LET mid == (lo + hi) \div 2
         IN  FMax(MaxOver(arr, lo, mid), MaxOver(arr, mid + 1, hi))

RECURSIVE MinOver(_, _, _)
MinOver(arr, lo, hi) ==
    IF lo = hi THEN arr[lo]
    ELSE LET mid == (lo + hi) \div 2
         IN  FMin(MinOver(arr, lo, mid), MinOver(arr, mid + 1, hi))

np_mean(arr) == FDiv(SumOver(arr, 1, NCells), Round(NCells, 0))

np_max(arr) == MaxOver(arr, 1, NCells)

np_min(arr) == MinOver(arr, 1, NCells)

SquaredDeviations(arr, mu) ==
    Array([n \in CellIds |-> FPow(FAbs(FSub(arr[n], mu)), 2)])

np_std(arr) ==
    Computed(np_mean(arr), LAMBDA mu :
    Computed(SquaredDeviations(arr, mu), LAMBDA deviations :
    Computed(np_mean(deviations), LAMBDA variance : FSqrt(variance))))

\* field - 1.0
Contrast(field) == Array([n \in CellIds |-> FSub(field[n], One)])

\* np.mean(np.abs(field - 1.0))
MeanAbsContrast(field) ==
    Computed(Contrast(field), LAMBDA delta :
    Computed(np_abs(delta), LAMBDA magnitudes : np_mean(magnitudes)))

\* scipy.ndimage.laplace: the second difference [1, -2, 1] along each axis,
\* summed over the axes.
Derivative2(arr, n, ax) ==
    FAdd(FMul(arr[n], F(-2000, -3)),
         FMul(FAdd(arr[Shifted(n, ax, -1)], arr[Shifted(n, ax, 1)]), One))

laplace(arr) ==
    Array([n \in CellIds |->
        FAdd(FAdd(Derivative2(arr, n, 0), Derivative2(arr, n, 1)), Derivative2(arr, n, 2))])

\* scipy.ndimage.gaussian_filter(sigma = 0.5): radius int(4.0 * 0.5 + 0.5) = 2,
\* weights exp(-0.5 / sigma^2 * x^2) normalised by their sum.
Normalised(p1, p2, s) == [w0 |-> FDiv(One, s), w1 |-> FDiv(p1, s), w2 |-> FDiv(p2, s)]
KernelOf(p1, p2) == Normalised(p1, p2, FAdd(FAdd(FAdd(FAdd(p2, p1), One), p1), p2))
GaussKernel == KernelOf(np_exp(F(-2000, -3)), np_exp(F(-8000, -3)))

Correlate1d(arr, ax, w) ==
    Array([n \in CellIds |->
        FAdd(FAdd(FMul(arr[n], w.w0),
                  FMul(FAdd(arr[Shifted(n, ax, -2)], arr[Shifted(n, ax, 2)]), w.w2)),
             FMul(FAdd(arr[Shifted(n, ax, -1)], arr[Shifted(n, ax, 1)]), w.w1))])

FilterAxes(arr, w) ==
    Computed(Correlate1d(arr, 0, w), LAMBDA along0 :
    Computed(Correlate1d(along0, 1, w), LAMBDA along1 : Correlate1d(along1, 2, w)))

gaussian_filter(arr) == FilterAxes(arr, GaussKernel)

np_clip(x, lo, hi) == FMax(lo, FMin(x, hi))

---------------------------------------------------------------------------
(* Arrays are objects: `arrays` is the heap, a sequence of slots, each an  *)
(* array or FreeSlot; a reference is a slot index, and 0 is None.          *)

FreeSlot == << >>

\* The lowest slot that none of `used` occupies.
LowestFree(h, used) ==
    CHOOSE i \in 1..(Len(h) + 1) : i \notin used /\ \A j \in 1..(i - 1) : j \in used

Put(h, i, content) == IF i <= Len(h) THEN [h EXCEPT ![i] = content] ELSE Append(h, content)

RECURSIVE Trim(_)
Trim(h) ==
    IF Len(h) > 0 /\ h[Len(h)] = FreeSlot THEN Trim(SubSeq(h, 1, Len(h) - 1)) ELSE h

\* Reference counting: the slots no reference in `live` names are freed.
Collect(h, live) ==
    Trim(SubSeq([i \in 1..Len(h) |-> IF i \in live THEN h[i] ELSE FreeSlot], 1, Len(h)))

\* self.density_field = <a new array>: the new array gets a slot of its own
\* and the old one is freed unless `keep` still refers to it.
BindAt(h, i, content, keep) ==
    [heap |-> Collect(Put(h, i, content), keep \cup {i}), ref |-> i]

Rebind(h, r, content, keep) == BindAt(h, LowestFree(h, keep \cup {r}), content, keep)

---------------------------------------------------------------------------
(* Evolution controller: src/src/simulation/universe.py                    *)
(* A value a method computes once and uses again is a parameter of the     *)
(* operator that continues the method.                                     *)

\* f_matter = rho_m / (rho_m + rho_r + 1e-100)
FractionOf(rho_m, rho_r) == FDiv(rho_m, FAdd(FAdd(rho_m, rho_r), F(1000, -103)))

MatterFraction(a) == FractionOf(density_matter(a), density_radiation(a))

\* The boost get_perturbation_growth_rate applies to base_growth.
BoostedGrowth(base_growth, delta_mean) ==
    IF FGt(delta_mean, One)
    THEN FMul(base_growth, FAdd(F(2000, -3), delta_mean))
    ELSE IF FGt(delta_mean, F(1000, -4))
    THEN FMul(base_growth, FAdd(One, FMul(F(2000, -3), delta_mean)))
    ELSE base_growth

\* The base rates of the two eras exchanged.
BaseGrowthSwapped(f_matter, H) == IF FGt(f_matter, F(5000, -4)) THEN FMul(F(1000, -4), H) ELSE H

BaseGrowth(f_matter, H) == IF FGt(f_matter, F(5000, -4)) THEN H ELSE FMul(F(1000, -4), H)

get_perturbation_growth_rate(a, field) ==
    Computed(hubble_parameter(a), LAMBDA H :
    Computed(MatterFraction(a), LAMBDA f_matter :
    Computed(BaseGrowth(f_matter, H), LAMBDA base_growth :
    Computed(MeanAbsContrast(field), LAMBDA delta_mean :
        BoostedGrowth(base_growth, delta_mean)))))

\* 1 + (self.density_field - 1) * (1 + growth_rate * dt)
Evolve(field, growth_rate, dt) ==
    Array([n \in CellIds |->
        FAdd(One, FMul(FSub(field[n], One), FAdd(One, FMul(growth_rate, dt))))])

\* collapse_strength = 0.1 * (f_matter - 0.5) * dt * 1e-16
CollapseStrength(f_matter, dt) ==
    FMul(FMul(FMul(F(1000, -4), FSub(f_matter, F(5000, -4))), dt), F(1000, -19))

\* density_change = np.clip(collapse_strength * gravitational_force, -0.01, 0.01)
DensityChange(collapse_strength, gravitational_force) ==
    Array([n \in CellIds |->
        np_clip(FMul(collapse_strength, gravitational_force[n]), F(-1000, -5), F(1000, -5))])

\* self.density_field += density_change: in place, the slot stays.
AddInPlace(h, r, density_change) ==
    [h EXCEPT ![r] = Array([n \in CellIds |-> FAdd(h[r][n], density_change[n])])]

\* blend_factor = min((delta_max - 1.0) / 2.0, 0.3)
BlendFactor(delta_max) == FMin(FDiv(FSub(delta_max, One), F(2000, -3)), F(3000, -4))

\* 1.0 + ((1 - blend_factor) * delta + blend_factor * delta_smoothed)
Blended(delta, delta_smoothed, blend_factor) ==
    Array([n \in CellIds |->
        FAdd(One, FAdd(FMul(FSub(One, blend_factor), delta[n]),
                       FMul(blend_factor, delta_smoothed[n])))])

\* if delta_max > 1.0: self.density_field = 1.0 + delta_blended
Smooth(h1, r, keep, delta, delta_max) ==
    IF FGt(delta_max, One)
    THEN Computed(gaussian_filter(delta), LAMBDA delta_smoothed :
         Computed(Blended(delta, delta_smoothed, BlendFactor(delta_max)), LAMBDA blended :
             Rebind(h1, r, blended, keep)))
    ELSE [heap |-> h1, ref |-> r]

\* self.density_field = np.maximum(self.density_field, 0.01)
Floor(b, keep) ==
    Rebind(b.heap, b.ref,
           Array([n \in CellIds |-> FMax(b.heap[b.ref][n], F(1000, -5))]), keep)

CollapseFrom(h, r, keep, dt, delta, f_matter) ==
    IF FLt(f_matter, F(5000, -4)) THEN [heap |-> h, ref |-> r]
    ELSE Computed(laplace(delta), LAMBDA gravitational_force :
         Computed(AddInPlace(h, r, DensityChange(CollapseStrength(f_matter, dt),
                                                 gravitational_force)), LAMBDA h1 :
         Computed(Smooth(h1, r, keep, delta, np_max(np_abs(delta))), LAMBDA b :
             Floor(b, keep))))

\* apply_gravitational_collapse(dt) on the array at slot r; a is the
\* current scale factor.  The result is the heap and the slot the
\* controller's field is bound to afterwards.
apply_gravitational_collapse(h, r, keep, a, dt) ==
    Computed(Contrast(h[r]), LAMBDA delta :
        CollapseFrom(h, r, keep, dt, delta, MatterFraction(a)))

StepResult(a1, t1, c) == [a |-> a1, t |-> t1, heap |-> c.heap, ref |-> c.ref]

\* The collapse applied from a mean contrast of zero on.
StepCollapseAlways(e, keep, a1, t1, dt) ==
    StepResult(a1, t1,
               IF FGe(MeanAbsContrast(e.heap[e.ref]), Zero)
               THEN apply_gravitational_collapse(e.heap, e.ref, keep, a1, dt)
               ELSE e)

\* if delta_mean > 0.1: self.apply_gravitational_collapse(dt)
StepCollapse(e, keep, a1, t1, dt) ==
    StepResult(a1, t1,
               IF FGt(MeanAbsContrast(e.heap[e.ref]), F(1000, -4))
               THEN apply_gravitational_collapse(e.heap, e.ref, keep, a1, dt)
               ELSE e)

\* The field grows at the rate of the updated scale factor.
StepGrow(h, r, keep, a1, t1, dt) ==
    Computed(get_perturbation_growth_rate(a1, h[r]), LAMBDA growth_rate :
    Computed(Rebind(h, r, Evolve(h[r], growth_rate, dt), keep), LAMBDA e :
        StepCollapse(e, keep, a1, t1, dt)))

\* step with the scale factor update subtracted.
StepContracting(h, r, keep, a, t, dt) ==
    Computed(hubble_parameter(a), LAMBDA H :
    Computed(FMul(H, a), LAMBDA da_dt :
    Computed(FSub(a, FMul(da_dt, dt)), LAMBDA a1 :
        StepGrow(h, r, keep, a1, FAdd(t, dt), dt))))

\* step with the growth rate taken before the scale factor is updated.
StepAtOldScale(h, r, keep, a, t, dt) ==
    Computed(hubble_parameter(a), LAMBDA H :
    Computed(FAdd(a, FMul(FMul(H, a), dt)), LAMBDA a1 :
    Computed(get_perturbation_growth_rate(a, h[r]), LAMBDA growth_rate :
    Computed(Rebind(h, r, Evolve(h[r], growth_rate, dt), keep), LAMBDA e :
        StepCollapse(e, keep, a1, FAdd(t, dt), dt)))))

\* step(dt): the new time, scale factor, heap and field slot.
step(h, r, keep, a, t, dt) ==
    Computed(hubble_parameter(a), LAMBDA H :
    Computed(FMul(H, a), LAMBDA da_dt :
    Computed(FAdd(a, FMul(da_dt, dt)), LAMBDA a1 :
        StepGrow(h, r, keep, a1, FAdd(t, dt), dt))))

\* Optional values: << >> is None, <<x>> is x.
None == << >>
Some(x) == <<x>>

\* The window with its bounds included.
InClosedWindow(t) == FLe(F(1000, -2), t) /\ FLe(t, F(1200, 0))

\* 10 < self.current_time < 1200
InBBNWindow(t) == FLt(F(1000, -2), t) /\ FLt(t, F(1200, 0))

\* The UniverseState get_current_state builds; ref is its density_field
\* (a slot, or 0 for None).
StateRecord(t, a, thermo_state, abundances, delta, ref) ==
    [time |-> t,
     scale_factor |-> a,
     temperature |-> thermo_state.temperature_K,
     hubble |-> hubble_parameter(a),
     epoch |-> thermo_state.epoch,
     rho_matter |-> density_matter(a),
     rho_radiation |-> density_radiation(a),
     rho_dark_energy |-> density_dark_energy(a),
     H_fraction |-> IF InBBNWindow(t) THEN Some(abundances.H) ELSE None,
     He_fraction |-> IF InBBNWindow(t) THEN Some(abundances.He4) ELSE None,
     density_rms |-> np_std(delta),
     density_max |-> np_max(delta),
     density_min |-> np_min(delta),
     density_field |-> ref]

\* The statistics taken over the magnitudes of the contrasts.
UniverseStateOfMagnitudes(t, a, field, ref) ==
    StateRecord(t, a, get_thermodynamic_state(a), calculate_abundances(F(7000, -4), F(1000, -4), FSub(t, One)),
                np_abs(Contrast(field)), ref)

\* The elapsed time taken backwards: 1 - current_time.
UniverseStateBackdated(t, a, field, ref) ==
    StateRecord(t, a, get_thermodynamic_state(a), calculate_abundances(F(7000, -4), F(1000, -4), FSub(One, t)),
                Contrast(field), ref)

UniverseState(t, a, field, ref) ==
    StateRecord(t, a, get_thermodynamic_state(a), calculate_abundances(F(7000, -4), F(1000, -4), FSub(t, One)),
                Contrast(field), ref)

\* The field included whatever the flag.
AlwaysInclude(include_density_field) == TRUE

\* self.density_field.copy() if include_density_field else None
IncludeField(include_density_field) == include_density_field

\* The field handed out as it is, without .copy().
Alias(h, r, keep) == [heap |-> h, ref |-> r]

\* self.density_field.copy(): a new array with the same contents.
CopyOut(h, r, keep) == BindAt(h, LowestFree(h, keep \cup {r}), h[r], keep \cup {r})

StateWith(cp, t, a, field) == [heap |-> cp.heap, state |-> UniverseState(t, a, field, cp.ref)]

\* The contrast computed in place: self.density_field -= 1.0.
GetCurrentStateInPlace(h, r, keep, t, a, include_density_field) ==
    StateWith(IF IncludeField(include_density_field)
              THEN CopyOut([h EXCEPT ![r] = Contrast(h[r])], r, keep)
              ELSE [heap |-> [h EXCEPT ![r] = Contrast(h[r])], ref |-> 0],
              t, a, h[r])

get_current_state(h, r, keep, t, a, include_density_field) ==
    StateWith(IF IncludeField(include_density_field)
              THEN CopyOut(h, r, keep)
              ELSE [heap |-> h, ref |-> 0],
              t, a, h[r])

\* get_current_state raises the ValueError of temperature_from_scale_factor.
StateRaises(a) == IsRaise(temperature_from_scale_factor(a, F(2725, -3)))

\* The loop as a do-while: the body runs once before the first test.
DoWhileCondition(t, target, iterations) == iterations = 0 \/ FLt(t, target)

\* The while test of run_to_time, at the head of the loop; `iterations` is
\* the number of iterations the call has made.
LoopCondition(t, target, iterations) == FLt(t, target)

\* The step without the cap at the target.
TimeStepUncapped(t, target) == FMax(FMul(t, F(1000, -5)), FMul(t, F(1000, -9)))

\* dt = max(t * 0.01, t * 1e-6); dt = min(dt, target_time - t)
TimeStep(t, target) ==
    FMin(FMax(FMul(t, F(1000, -5)), FMul(t, F(1000, -9))), FSub(target, t))

\* self.current_time / self.history[-1].time raises ZeroDivisionError.
RatioRaises(hist) == Len(hist) > 0 /\ hist[Len(hist)].time.m = 0

\* A record after every step.
RecordAlways(hist, t) == TRUE

\* A record only while the history is empty.
RecordOnlyFirst(hist, t) == Len(hist) = 0

\* len(self.history) == 0 or self.current_time / self.history[-1].time > 1.1
RecordDue(hist, t) ==
    Len(hist) = 0 \/ FGt(FDiv(t, hist[Len(hist)].time), F(1100, -3))

---------------------------------------------------------------------------
(* The controller as a state machine.                                      *)

VARIABLES
    current_time,          \* self.current_time
    current_scale_factor,  \* self.current_scale_factor
    density_field,         \* self.density_field: a slot of arrays
    arrays,                \* the heap of arrays
    history,               \* self.history
    pc,                    \* "idle", or "loop" inside run_to_time
    target_time,           \* the argument of the current or last run_to_time
    iterations,            \* loop iterations made by that call
    returned,              \* the snapshot the caller holds: None or Some
    outcome,               \* how the last call ended
    last_op,               \* the operation that made the last change
    last_flag,             \* include_density_field of the call that built `returned`
    ncalls,                \* calls made so far
    call_time,             \* current_time when the last run_to_time began
    repeat,                \* that call repeats the target of the call before it
    before,                \* what the controller and the caller held then
    omega,                 \* fractions handed to CosmologicalParameters
    params_result,         \* how that construction ended
    params,                \* the fractions of the constructed object, or None
    T_in,                  \* temperature handed to identify_epoch
    epoch_out,             \* the label it returned
    request,               \* a call of a function of the core: None or Some
    reply,                 \* what that call returned or raised: None or Some
    samples,               \* temperatures classified so far, with their labels
    solver,                \* the histories a FriedmannSolver object stores
    integrator             \* what solve_ivp reported, one entry per call of it

ctl_vars == <<current_time, current_scale_factor, density_field, arrays, history,
              pc, target_time, iterations, returned, outcome, last_op, last_flag,
              ncalls, call_time, repeat, before>>
call_vars == <<request, reply, samples, solver, integrator>>
pure_vars == <<omega, params_result, params, T_in, epoch_out, call_vars>>
vars == <<ctl_vars, pure_vars>>

MaxCalls == 2

\* config['simulation']['start_time'], config['initial_conditions']['scale_factor']
Configs ==
    { [start_time |-> Zero,          scale_factor |-> F(1000, -12)],
      [start_time |-> F(9900, -3),   scale_factor |-> F(1000, -12)],
      [start_time |-> F(1190, 0),    scale_factor |-> F(1000, -11)],
      [start_time |-> F(1000, 17),   scale_factor |-> One] }

\* Fields initialize_density_field can leave: noise too small to show in
\* four digits, one deep cell, and noise in every other cell.
OutlierCell == (NCells + 1) \div 2
InitFields ==
    { Array([n \in CellIds |-> One]),
      Array([n \in CellIds |-> IF n = OutlierCell THEN F(9999, -4) ELSE One]),
      Array([n \in CellIds |-> IF n % 2 = 0 THEN F(9999, -4) ELSE One]) }

Targets == { F(1000, -2), F(1200, -2), F(1195, 0), F(1200, 0),
             F(1100, 17), F(1200, 17) }
StepSizes == { F(1000, -3), F(1000, 15) }

SnapRefs(s) == IF s.density_field = 0 THEN {} ELSE {s.density_field}
HeldRefs(ret) == IF ret = None THEN {} ELSE SnapRefs(ret[1])
HistoryRefs(hist) == UNION { SnapRefs(hist[i]) : i \in 1..Len(hist) }

\* A snapshot with its field written out.
SnapValue(s, h) ==
    [s EXCEPT !.density_field = IF s.density_field = 0 THEN None ELSE Some(h[s.density_field])]
HeldValue(ret, h) == IF ret = None THEN None ELSE Some(SnapValue(ret[1], h))
HistoryValue(hist, h) == [i \in 1..Len(hist) |-> SnapValue(hist[i], h)]
ControllerValue ==
    [current_time |-> current_time,
     current_scale_factor |-> current_scale_factor,
     density_field |-> arrays[density_field],
     history |-> HistoryValue(history, arrays)]

\* Universe.__init__(config), with the field initialize_density_field left.
InitControllerWith(cfg, field) ==
    /\ current_time = cfg.start_time
    /\ current_scale_factor = cfg.scale_factor
    /\ arrays = <<field>>
    /\ density_field = 1
    /\ history = << >>
    /\ pc = "idle"
    /\ target_time = Zero
    /\ iterations = 0
    /\ returned = None
    /\ outcome = "none"
    /\ last_op = "construct"
    /\ last_flag = FALSE
    /\ ncalls = 0
    /\ call_time = Zero
    /\ repeat = FALSE
    /\ before = None

InitController == \E cfg \in Configs : \E field \in InitFields : InitControllerWith(cfg, field)

\* CosmologicalParameters(...): __post_init__ validates and changes nothing.
Construct ==
    /\ params_result = "none"
    /\ params_result' = IF PostInitRaises(omega) THEN "ValueError" ELSE "constructed"
    /\ params' = IF PostInitRaises(omega) THEN None ELSE Some(omega)
    /\ UNCHANGED omega

\* identify_epoch(T_in)
Classify ==
    /\ epoch_out = "none"
    /\ epoch_out' = identify_epoch(T_in)
    /\ UNCHANGED T_in

\* FriedmannSolver.__init__: the solution storage starts empty.
NoSolution ==
    [time_history |-> << >>, scale_factor_history |-> << >>, hubble_history |-> << >>,
     density_history |-> [matter |-> << >>, radiation |-> << >>, dark_energy |-> << >>]]

\* No call made, nothing sampled, a solver just constructed.
CallsAtRest ==
    /\ request = None
    /\ reply = None
    /\ samples = << >>
    /\ solver = NoSolution
    /\ integrator = << >>

\* Universe.__init__ constructs CosmologicalParameters() with the defaults.
InitPure ==
    /\ CallsAtRest
    /\ omega = DefaultParameters
    /\ params_result = IF PostInitRaises(DefaultParameters) THEN "ValueError" ELSE "constructed"
    /\ params = IF PostInitRaises(DefaultParameters) THEN None ELSE Some(DefaultParameters)
    /\ T_in = Zero
    /\ epoch_out = "none"

Init == InitController /\ InitPure

\* The references the caller and the history hold.
Held == HeldRefs(returned) \cup HistoryRefs(history)

\* run_to_time(target_time) is entered.
CallRunToTime(target) ==
    /\ pc = "idle"
    /\ ncalls < MaxCalls
    /\ current_time.m = 0 \/ FLe(target, FMul(current_time, F(1300, -3)))
    /\ pc' = "loop"
    /\ target_time' = target
    /\ iterations' = 0
    /\ outcome' = "none"
    /\ last_op' = "run_to_time"
    /\ ncalls' = ncalls + 1
    /\ call_time' = current_time
    /\ repeat' = (last_op = "run_to_time" /\ outcome = "returned" /\ target_time = target)
    /\ before' = IF repeat'
                 THEN Some([controller |-> ControllerValue,
                            returned |-> HeldValue(returned, arrays)])
                 ELSE None
    /\ UNCHANGED <<current_time, current_scale_factor, density_field, arrays, history,
                   returned, last_flag>>

\* state = self.get_current_state(include_density_field=False)
\* self.history.append(state)
LoopRecord(g) ==
    /\ history' = Append(history, g.state)
    /\ arrays' = g.heap
    /\ UNCHANGED <<pc, outcome>>

\* The body of the loop after self.step(dt) gave s.
LoopBody(s) ==
    /\ current_time' = s.t
    /\ current_scale_factor' = s.a
    /\ density_field' = s.ref
    /\ IF RatioRaises(history)
       THEN /\ pc' = "idle"
            /\ outcome' = "ZeroDivisionError"
            /\ arrays' = s.heap
            /\ UNCHANGED history
       ELSE IF RecordDue(history, s.t) /\ StateRaises(s.a)
       THEN /\ pc' = "idle"
            /\ outcome' = "ValueError"
            /\ arrays' = s.heap
            /\ UNCHANGED history
       ELSE IF RecordDue(history, s.t)
       THEN LoopRecord(get_current_state(s.heap, s.ref, Held, s.t, s.a, FALSE))
       ELSE /\ arrays' = s.heap
            /\ UNCHANGED <<history, pc, outcome>>

\* One iteration of the while loop.
LoopIter ==
    /\ pc = "loop"
    /\ LoopCondition(current_time, target_time, iterations)
    /\ LoopBody(step(arrays, density_field, Held, current_scale_factor, current_time,
                     TimeStep(current_time, target_time)))
    /\ iterations' = iterations + 1
    /\ last_op' = "run_to_time"
    /\ UNCHANGED <<target_time, returned, last_flag, ncalls, call_time, repeat, before>>

\* The caller receives the state g holds and drops the one it held.
Return(g) ==
    /\ returned' = Some(g.state)
    /\ arrays' = Collect(g.heap, {density_field} \cup SnapRefs(g.state)
                                     \cup HistoryRefs(history))

\* The loop ends and run_to_time returns the full state.
LoopExit ==
    /\ pc = "loop"
    /\ ~LoopCondition(current_time, target_time, iterations)
    /\ IF StateRaises(current_scale_factor)
       THEN /\ outcome' = "ValueError"
            /\ UNCHANGED <<returned, arrays, last_flag>>
       ELSE /\ Return(get_current_state(arrays, density_field, HistoryRefs(history),
                                        current_time, current_scale_factor, TRUE))
            /\ outcome' = "returned"
            /\ last_flag' = TRUE
    /\ pc' = "idle"
    /\ last_op' = "run_to_time"
    /\ UNCHANGED <<current_time, current_scale_factor, density_field, history,
                   target_time, iterations, ncalls, call_time, repeat, before>>

Stepped(s) ==
    /\ current_time' = s.t
    /\ current_scale_factor' = s.a
    /\ density_field' = s.ref
    /\ arrays' = s.heap

\* A direct call of step(dt).
CallStep(dt) ==
    /\ pc = "idle"
    /\ ncalls < MaxCalls
    /\ Stepped(step(arrays, density_field, Held, current_scale_factor, current_time, dt))
    /\ last_op' = "step"
    /\ outcome' = "returned"
    /\ ncalls' = ncalls + 1
    /\ UNCHANGED <<history, pc, target_time, iterations, returned, last_flag,
                   call_time, repeat, before>>

\* A direct call of get_current_state(include_density_field).
CallGetCurrentState(include_density_field) ==
    /\ pc = "idle"
    /\ ncalls < MaxCalls
    /\ IF StateRaises(current_scale_factor)
       THEN /\ outcome' = "ValueError"
            /\ UNCHANGED <<returned, arrays, last_flag>>
       ELSE /\ Return(get_current_state(arrays, density_field, HistoryRefs(history),
                                        current_time, current_scale_factor,
                                        include_density_field))
            /\ outcome' = "returned"
            /\ last_flag' = include_density_field
    /\ last_op' = "get_current_state"
    /\ ncalls' = ncalls + 1
    /\ UNCHANGED <<current_time, current_scale_factor, density_field, history, pc,
                   target_time, iterations, call_time, repeat, before>>

Zeros == Array([n \in CellIds |-> Zero])

\* The caller overwrites the field of the snapshot it holds: field[:] = 0.
ConsumerWrite ==
    /\ pc = "idle"
    /\ returned # None
    /\ returned[1].density_field # 0
    /\ arrays[returned[1].density_field] # Zeros
    /\ arrays' = [arrays EXCEPT ![returned[1].density_field] = Zeros]
    /\ last_op' = "write"
    /\ UNCHANGED <<current_time, current_scale_factor, density_field, history, pc,
                   target_time, iterations, returned, outcome, last_flag, ncalls,
                   call_time, repeat, before>>

Next ==
    \/ (\E target \in Targets : CallRunToTime(target)) /\ UNCHANGED pure_vars
    \/ LoopIter /\ UNCHANGED pure_vars
    \/ LoopExit /\ UNCHANGED pure_vars
    \/ (\E dt \in StepSizes : CallStep(dt)) /\ UNCHANGED pure_vars
    \/ (\E flag \in BOOLEAN : CallGetCurrentState(flag)) /\ UNCHANGED pure_vars
    \/ ConsumerWrite /\ UNCHANGED pure_vars

Spec == Init /\ [][Next]_vars

---------------------------------------------------------------------------
(* step, get_perturbation_growth_rate and apply_gravitational_collapse     *)
(* called directly on a constructed controller.  step takes any float:     *)
(* a long step grows the contrasts past the thresholds, a negative one     *)
(* takes the scale factor back down.                                       *)

MaxFieldCalls == 3

FieldConfigs ==
    { [start_time |-> F(1000, 14), scale_factor |-> One],
      [start_time |-> One,         scale_factor |-> F(1000, -12)] }

FieldSteps == { F(1000, 12), F(1000, 18), F(-4581, 14), F(-1295, 10) }
CollapseSteps == { F(1000, 12), F(1000, 18) }

InitField ==
    /\ \E cfg \in FieldConfigs : \E field \in InitFields : InitControllerWith(cfg, field)
    /\ InitPure

\* universe.step(dt)
FieldStep(dt) ==
    /\ pc = "idle"
    /\ ncalls < MaxFieldCalls
    /\ Stepped(step(arrays, density_field, Held, current_scale_factor, current_time, dt))
    /\ request' = Some([op |-> "step", dt |-> dt])
    /\ reply' = None
    /\ last_op' = "step"
    /\ outcome' = "returned"
    /\ ncalls' = ncalls + 1
    /\ UNCHANGED <<history, pc, target_time, iterations, returned, last_flag,
                   call_time, repeat, before>>

Collapsed(c) ==
    /\ density_field' = c.ref
    /\ arrays' = c.heap

\* universe.apply_gravitational_collapse(dt)
FieldCollapse(dt) ==
    /\ pc = "idle"
    /\ ncalls < MaxFieldCalls
    /\ Collapsed(apply_gravitational_collapse(arrays, density_field, Held,
                                              current_scale_factor, dt))
    /\ request' = Some([op |-> "apply_gravitational_collapse", dt |-> dt])
    /\ reply' = None
    /\ last_op' = "apply_gravitational_collapse"
    /\ outcome' = "returned"
    /\ ncalls' = ncalls + 1
    /\ UNCHANGED <<current_time, current_scale_factor, history, pc, target_time,
                   iterations, returned, last_flag, call_time, repeat, before>>

\* universe.get_perturbation_growth_rate()
FieldGrowthRate ==
    /\ pc = "idle"
    /\ request' = Some([op |-> "get_perturbation_growth_rate"])
    /\ reply' = Some(get_perturbation_growth_rate(current_scale_factor,
                                                  arrays[density_field]))
    /\ UNCHANGED ctl_vars

NextField ==
    \/ (\E dt \in FieldSteps : FieldStep(dt))
          /\ UNCHANGED <<omega, params_result, params, T_in, epoch_out,
                         samples, solver, integrator>>
    \/ (\E dt \in CollapseSteps : FieldCollapse(dt))
          /\ UNCHANGED <<omega, params_result, params, T_in, epoch_out,
                         samples, solver, integrator>>
    \/ FieldGrowthRate
          /\ UNCHANGED <<omega, params_result, params, T_in, epoch_out,
                         samples, solver, integrator>>

SpecField == InitField /\ [][NextField]_vars

---------------------------------------------------------------------------
(* CosmologicalParameters on its own: fractions in parts per million.      *)

ParameterInputs ==
    { DefaultParameters } \cup
    [ Omega_m0 : {313000, 314000, 314500, 315000, 316000, 317000},
      Omega_r0 : {0, 92},
      Omega_lambda0 : {684000, 685000, 686000},
      Omega_k0 : {-1000, 0, 1000} ]

AtRest ==
    InitControllerWith([start_time |-> F(1000, 17), scale_factor |-> One],
                       Array([n \in CellIds |-> One]))

InitParams ==
    /\ AtRest
    /\ omega \in ParameterInputs
    /\ params_result = "none"
    /\ params = None
    /\ T_in = Zero
    /\ epoch_out = "none"
    /\ CallsAtRest

NextParams == Construct /\ UNCHANGED <<ctl_vars, T_in, epoch_out, call_vars>>

SpecParams == InitParams /\ [][NextParams]_vars

---------------------------------------------------------------------------
(* identify_epoch on its own.                                              *)

Temperatures ==
    { F(m, e) : m \in {1000, 1160, 1161, 1740, 1741, 2725, 2900, 2901, 5000, 9280, 9281, 9999},
                e \in -4..29 }

InitEpoch ==
    /\ AtRest
    /\ omega = DefaultParameters
    /\ params_result = "constructed"
    /\ params = Some(DefaultParameters)
    /\ T_in \in Temperatures
    /\ epoch_out = "none"
    /\ CallsAtRest

NextEpoch == Classify /\ UNCHANGED <<ctl_vars, omega, params_result, params, call_vars>>

SpecEpoch == InitEpoch /\ [][NextEpoch]_vars

---------------------------------------------------------------------------
(* identify_epoch along a strictly descending sequence of temperatures.    *)

MaxSamples == 3

\* Temperatures at and next to every threshold, and beyond both ends.
SampleTemperatures ==
    { F(m, e) : m \in {1160, 1161}, e \in {28, 24, 7, 6, 1} } \cup
    { F(1000, 29), F(9280, 11), F(9281, 11), F(1740, 9), F(1741, 9),
      F(2900, 0), F(2901, 0), F(1000, -3) }

\* The engines constructed, nothing called yet.
PureAtRest ==
    /\ AtRest
    /\ omega = DefaultParameters
    /\ params_result = "constructed"
    /\ params = Some(DefaultParameters)
    /\ T_in = Zero
    /\ epoch_out = "none"

InitDescent == PureAtRest /\ CallsAtRest

\* identify_epoch(T) for a T below every temperature sampled before.
Sample(T) ==
    /\ Len(samples) < MaxSamples
    /\ samples # << >> => FLt(T, samples[Len(samples)].T)
    /\ samples' = Append(samples, [T |-> T, epoch |-> identify_epoch(T)])
    /\ UNCHANGED <<request, reply, solver, integrator>>

NextDescent ==
    (\E T \in SampleTemperatures : Sample(T))
        /\ UNCHANGED <<ctl_vars, omega, params_result, params, T_in, epoch_out>>

SpecDescent == InitDescent /\ [][NextDescent]_vars

---------------------------------------------------------------------------
(* get_active_particles along a strictly descending sequence.              *)

\* The temperature of each activation threshold, and its neighbours.
ProbeTemperatures ==
    { F(1000, -3), F(1000, 20) } \cup
    UNION { { F(FMul(FDiv(particle_masses[i].mass_eV, F(3000, -3)), eV_to_K).m + d,
                FMul(FDiv(particle_masses[i].mass_eV, F(3000, -3)), eV_to_K).e)
              : d \in -1..2 } : i \in 1..Len(particle_masses) }

InitActive == PureAtRest /\ CallsAtRest

\* get_active_particles(T) for a T below every temperature probed before.
Probe(T) ==
    /\ Len(samples) < MaxSamples
    /\ samples # << >> => FLt(T, samples[Len(samples)].T)
    /\ samples' = Append(samples, [T |-> T, active |-> get_active_particles(T)])
    /\ UNCHANGED <<request, reply, solver, integrator>>

NextActive ==
    (\E T \in ProbeTemperatures : Probe(T))
        /\ UNCHANGED <<ctl_vars, omega, params_result, params, T_in, epoch_out>>

SpecActive == InitActive /\ [][NextActive]_vars

---------------------------------------------------------------------------
(* temperature_from_scale_factor and scale_factor_from_temperature.        *)

\* Arguments a and T: positive, zero, negative, at both ends of the float
\* range, and the floats that are no numbers.
ScalingArguments ==
    { One, F(1000, -4), F(5000, -3), F(2725, -3), F(1000, -12), F(3000, 0),
      Zero, F(-1000, -3), F(-1000, -313), F(-1000, 300),
      F(1000, -313), F(4941, -327), F(1000, 300), NaN, PosInf, NegInf }
TodayTemperatures == { F(2725, -3), Zero, F(1000, 0), FloatMax }

InitScaling ==
    /\ PureAtRest
    /\ request \in { Some([op |-> op, x |-> x, T_today |-> T0]) :
                       op \in {"temperature_from_scale_factor", "scale_factor_from_temperature"},
                       x \in ScalingArguments, T0 \in TodayTemperatures }
    /\ reply = None
    /\ samples = << >>
    /\ solver = NoSolution
    /\ integrator = << >>

CallTemperatureFromScaleFactor ==
    /\ reply = None
    /\ request[1].op = "temperature_from_scale_factor"
    /\ reply' = Some(temperature_from_scale_factor(request[1].x, request[1].T_today))
    /\ UNCHANGED <<request, samples, solver, integrator>>

CallScaleFactorFromTemperature ==
    /\ reply = None
    /\ request[1].op = "scale_factor_from_temperature"
    /\ reply' = Some(scale_factor_from_temperature(request[1].x, request[1].T_today))
    /\ UNCHANGED <<request, samples, solver, integrator>>

NextScaling ==
    \/ CallTemperatureFromScaleFactor
           /\ UNCHANGED <<ctl_vars, omega, params_result, params, T_in, epoch_out>>
    \/ CallScaleFactorFromTemperature
           /\ UNCHANGED <<ctl_vars, omega, params_result, params, T_in, epoch_out>>

SpecScaling == InitScaling /\ [][NextScaling]_vars

---------------------------------------------------------------------------
(* The densities of the expansion solver, and the equality of matter and   *)
(* radiation.                                                              *)

ScaleFactors ==
    { One, F(1000, -4), F(2000, -3), F(5000, -4), F(3000, -3), F(1000, -2),
      F(2920, -7), F(1000, -12), F(1000, -38), F(7777, -6), F(1234, -1), F(9999, -4) }

\* Parameter sets with positive matter and radiation fractions that
\* __post_init__ accepts.
EqualityParameters ==
    { [Omega_m0 |-> m, Omega_r0 |-> r, Omega_lambda0 |-> 1000000 - m - r, Omega_k0 |-> 0] :
        m \in {1, 17, 1000, 45670, 315000, 500000, 700000, 999000},
        r \in {1, 92, 333, 1000, 84210, 300000, 999} }

InitExpansion ==
    /\ AtRest
    /\ \/ /\ omega = DefaultParameters
          /\ request \in { Some([op |-> op, a1 |-> a1, a2 |-> a2]) :
                              op \in {"density_matter", "density_radiation"},
                              a1 \in ScaleFactors, a2 \in ScaleFactors }
       \/ /\ omega \in EqualityParameters
          /\ request = Some([op |-> "find_matter_radiation_equality"])
    /\ params_result = "constructed"
    /\ params = Some(omega)
    /\ T_in = Zero
    /\ epoch_out = "none"
    /\ reply = None
    /\ samples = << >>
    /\ solver = NoSolution
    /\ integrator = << >>

\* density_matter(a1), density_matter(a2)
CallDensityMatter ==
    /\ reply = None
    /\ request[1].op = "density_matter"
    /\ reply' = Some(<<density_matter(request[1].a1), density_matter(request[1].a2)>>)
    /\ UNCHANGED <<request, samples, solver, integrator>>

\* density_radiation(a1), density_radiation(a2)
CallDensityRadiation ==
    /\ reply = None
    /\ request[1].op = "density_radiation"
    /\ reply' = Some(<<density_radiation(request[1].a1), density_radiation(request[1].a2)>>)
    /\ UNCHANGED <<request, samples, solver, integrator>>

CallFindEquality ==
    /\ reply = None
    /\ request[1].op = "find_matter_radiation_equality"
    /\ reply' = Some(find_matter_radiation_equality(params[1]))
    /\ UNCHANGED <<request, samples, solver, integrator>>

NextExpansion ==
    \/ CallDensityMatter
           /\ UNCHANGED <<ctl_vars, omega, params_result, params, T_in, epoch_out>>
    \/ CallDensityRadiation
           /\ UNCHANGED <<ctl_vars, omega, params_result, params, T_in, epoch_out>>
    \/ CallFindEquality
           /\ UNCHANGED <<ctl_vars, omega, params_result, params, T_in, epoch_out>>

SpecExpansion == InitExpansion /\ [][NextExpansion]_vars

---------------------------------------------------------------------------
(* FriedmannSolver.solve and validate_solution.  solve_ivp is scipy's: what *)
(* it reports is a choice among the reports it can give.                   *)

MaxSolves == 2

SolveArguments ==
    { [t_start |-> F(1000, 10), t_end |-> F(1000, 14), a_initial |-> F(1000, -6)],
      [t_start |-> F(1000, 14), t_end |-> F(3156, 13), a_initial |-> F(1000, -4)],
      [t_start |-> F(1000, 10), t_end |-> F(1000, 10), a_initial |-> F(1000, -6)] }

\* The scale factors of a trajectory, as multiples of a_initial.
GrowthProfiles ==
    { <<One, F(2000, -3)>>, <<One, F(1001, -3), F(1002, -3)>>,
      <<One, F(2000, -3), F(4000, -3)>>, <<One, F(1500, -3), F(2000, -3), F(3000, -3)>> }

TimesOf(call, n) ==
    ListOf([i \in 1..n |-> IF i = 1 THEN call.t_start
                           ELSE IF i = n THEN call.t_end
                           ELSE FMul(Round(i - 1, 0), FDiv(call.t_end, Round(n, 0)))], n)

\* The OdeResult of solve_ivp(friedmann_odes, (t_start, t_end), [a_initial]):
\* t_end reached, or the step size fallen below the spacing of floats.
Solutions(call) ==
    IF call.t_start = call.t_end
    THEN { [success |-> TRUE,
            message |-> "The solver successfully reached the end of the integration interval.",
            t |-> <<call.t_start>>, y |-> <<call.a_initial>>] }
    ELSE { [success |-> TRUE,
            message |-> "The solver successfully reached the end of the integration interval.",
            t |-> TimesOf(call, Len(profile)),
            y |-> ListOf([i \in 1..Len(profile) |-> FMul(call.a_initial, profile[i])],
                         Len(profile))] : profile \in GrowthProfiles }
         \cup
         { [success |-> FALSE,
            message |-> "Required step size is less than spacing between numbers.",
            t |-> <<call.t_start>>, y |-> <<call.a_initial>>] }

InitSolver == PureAtRest /\ CallsAtRest

\* solve(t_start, t_end, a_initial), solve_ivp returning `solution`.
SolveReturns(call, solution, result) ==
    /\ Len(integrator) < MaxSolves
    /\ request' = Some([op |-> "solve", t_start |-> call.t_start, t_end |-> call.t_end,
                        a_initial |-> call.a_initial])
    /\ integrator' = Append(integrator, solution)
    /\ solver' = result.solver
    /\ reply' = Some(result.reply)
    /\ UNCHANGED samples

CallSolve(call, solution) == SolveReturns(call, solution, solve(solver, solution))

CallValidateSolution ==
    /\ request' = Some([op |-> "validate_solution"])
    /\ reply' = Some(validate_solution(solver))
    /\ UNCHANGED <<samples, solver, integrator>>

NextSolver ==
    \/ (\E call \in SolveArguments : \E solution \in Solutions(call) : CallSolve(call, solution))
           /\ UNCHANGED <<ctl_vars, omega, params_result, params, T_in, epoch_out>>
    \/ CallValidateSolution
           /\ UNCHANGED <<ctl_vars, omega, params_result, params, T_in, epoch_out>>

SpecSolver == InitSolver /\ [][NextSolver]_vars

---------------------------------------------------------------------------
(* Universe(config): the constructor, with arrays held by their shapes.    *)

DefaultGridSize == 256

NoiseScales == <<1, 2, 4, 8, 16>>

Cube(n) == <<n, n, n>>

\* The shape of np.repeat(np.repeat(np.repeat(noise, scale, 0), scale, 1), scale, 2).
RepeatedShape(shape, scale) == [ax \in 1..Len(shape) |-> shape[ax] * scale]

\* out += operand: every axis of the operand has the length of out's or 1.
Broadcasts(operand, out) ==
    \A ax \in 1..Len(out) : operand[ax] = out[ax] \/ operand[ax] = 1

\* The loop over the noise scales from the k-th on; field: the shape of
\* density_field and the scales added so far.
RECURSIVE SeedOctaves(_, _, _)
SeedOctaves(grid_size, field, k) ==
    IF k > Len(NoiseScales) THEN field
    ELSE IF Broadcasts(RepeatedShape(Cube(grid_size \div NoiseScales[k]), NoiseScales[k]),
                       field.shape)
         THEN SeedOctaves(grid_size,
                          [shape |-> field.shape,
                           octaves |-> Append(field.octaves, NoiseScales[k])],
                          k + 1)
         ELSE Raised("ValueError")

initialize_density_field(grid_size) ==
    SeedOctaves(grid_size, [shape |-> Cube(grid_size), octaves |-> << >>], 1)

GridSizeOf(config) ==
    IF "grid_size" \in DOMAIN config.structure
    THEN config.structure.grid_size
    ELSE DefaultGridSize

Constructed(config, field) ==
    IF IsRaise(field) THEN field
    ELSE [current_time |-> config.simulation.start_time,
          current_scale_factor |-> config.initial_conditions.scale_factor,
          history |-> << >>,
          grid_size |-> GridSizeOf(config),
          density_field |-> field]

Universe(config) == Constructed(config, initialize_density_field(GridSizeOf(config)))

MaxGridEdge == 48

GridConfigs ==
    { [simulation |-> [start_time |-> t],
       initial_conditions |-> [scale_factor |-> a],
       structure |-> structure] :
        t \in {F(1000, -35), F(1000, 0)},
        a \in {F(1000, -33), F(1000, -13)},
        structure \in { [grid_size |-> g] : g \in 1..MaxGridEdge } \cup { << >> } }

InitConstruction == PureAtRest /\ CallsAtRest

CallUniverse(config) ==
    /\ request' = Some([op |-> "Universe", config |-> config])
    /\ reply' = Some(Universe(config))
    /\ UNCHANGED <<samples, solver, integrator>>

NextConstruction ==
    \E config \in GridConfigs :
        CallUniverse(config)
           /\ UNCHANGED <<ctl_vars, omega, params_result, params, T_in, epoch_out>>

SpecConstruction == InitConstruction /\ [][NextConstruction]_vars

---------------------------------------------------------------------------
(* The abundance model on its own.                                         *)

\* T_freeze_MeV, T_nuc_start_MeV and time_to_nucleosynthesis: the
\* defaults, other positive values, zero and negative values.
FreezeTemperatures ==
    { F(7000, -4), F(8000, -4), One, F(5000, -4), F(2000, -3), F(3000, -4),
      Zero, F(-7000, -4) }
StartTemperatures == { F(1000, -4), Zero, F(-1000, -4) }
ElapsedTimes ==
    { F(3000, -1), F(1000, -3), F(1100, -2), F(8794, -1), F(1199, 0), F(1000, 3),
      Zero, F(-1000, -3), F(-3000, -1), F(-1000, 3) }

\* Neutron fractions in [0, 1].
NeutronFractions ==
    { Zero, One } \cup
    { F(m, e) : m \in {1000, 1234, 1500, 2500, 3333, 4999, 5000, 5001, 7500, 9999},
                e \in {-4, -5, -6, -7, -8, -9, -12} }

InitAbundance ==
    /\ PureAtRest
    /\ request \in
          { Some([op |-> "calculate_abundances", T_freeze_MeV |-> Tf,
                  T_nuc_start_MeV |-> Ts, time_to_nucleosynthesis |-> t]) :
              Tf \in FreezeTemperatures, Ts \in StartTemperatures, t \in ElapsedTimes }
          \cup
          { Some([op |-> "mass_fractions", neutron_fraction |-> x]) : x \in NeutronFractions }
    /\ reply = None
    /\ samples = << >>
    /\ solver = NoSolution
    /\ integrator = << >>

\* calculate_abundances(T_freeze_MeV, T_nuc_start_MeV, time_to_nucleosynthesis)
CallCalculateAbundances ==
    /\ reply = None
    /\ request[1].op = "calculate_abundances"
    /\ reply' = Some(calculate_abundances(request[1].T_freeze_MeV,
                                          request[1].T_nuc_start_MeV,
                                          request[1].time_to_nucleosynthesis))
    /\ UNCHANGED <<request, samples, solver, integrator>>

\* Y_He4 = helium4_mass_fraction(X_n); Y_H = hydrogen_mass_fraction(Y_He4)
MassFractions(Y_He4) == [He4 |-> Y_He4, H |-> hydrogen_mass_fraction(Y_He4)]

CallMassFractions ==
    /\ reply = None
    /\ request[1].op = "mass_fractions"
    /\ reply' = Some(MassFractions(helium4_mass_fraction(request[1].neutron_fraction)))
    /\ UNCHANGED <<request, samples, solver, integrator>>

NextAbundance ==
    \/ CallCalculateAbundances
           /\ UNCHANGED <<ctl_vars, omega, params_result, params, T_in, epoch_out>>
    \/ CallMassFractions
           /\ UNCHANGED <<ctl_vars, omega, params_result, params, T_in, epoch_out>>

SpecAbundance == InitAbundance /\ [][NextAbundance]_vars

---------------------------------------------------------------------------
(* Properties.                                                             *)

Field == arrays[density_field]
HasField(ret) == ret # None /\ ret[1].density_field # 0
Snapshots == {history[i] : i \in 1..Len(history)}
                 \cup (IF returned = None THEN {} ELSE {returned[1]})

\* C1: in every reachable state every cell of density_field is >= 0.01.
C1_FloorHolds == \A n \in CellIds : FGe(Field[n], F(1000, -5))

\* C2: a run_to_time call that repeats the target of the call just returned
\* makes no iteration, leaves current_time, current_scale_factor, every cell
\* of the field and the history as they were, and returns a snapshot equal
\* to the one the first call returned.
C2_RepeatIsNoOp ==
    (repeat /\ last_op = "run_to_time") =>
        /\ iterations = 0
        /\ outcome # "ZeroDivisionError"
        /\ before[1].controller = ControllerValue
        /\ pc = "idle" => before[1].returned = HeldValue(returned, arrays)

C2_Repeated ==
    /\ repeat /\ last_op = "run_to_time" /\ pc = "idle" /\ outcome = "returned"
    /\ Len(history) > 0
    /\ HasField(returned)

\* C3: a run_to_time call entered with 0 < current_time <= target never
\* takes current_time past the target, and when it returns current_time and
\* the time of the returned snapshot both equal the target.
C3_NoOvershoot ==
    (last_op = "run_to_time" /\ call_time.m > 0 /\ FLe(call_time, target_time)) =>
        /\ FLe(current_time, target_time)
        /\ (pc = "idle" /\ outcome = "returned") =>
               /\ current_time = target_time
               /\ returned[1].time = target_time

C3_Arrived ==
    /\ last_op = "run_to_time" /\ call_time.m > 0 /\ FLt(call_time, target_time)
    /\ pc = "idle" /\ outcome = "returned"
    /\ iterations >= 2
    /\ returned[1].time = target_time

\* C4: a run_to_time call entered with a non-negative current_time and a
\* larger target ends by returning.
C4_Returns ==
    (last_op = "run_to_time" /\ pc = "idle" /\ call_time.m >= 0
        /\ FLt(call_time, target_time)) => outcome = "returned"

\* C5: no entry of history carries a field, and the snapshot the caller
\* holds carries one exactly when it was built with include_density_field
\* true (run_to_time at loop exit, or get_current_state(True)).
C5_HistoryWithoutField ==
    /\ \A i \in 1..Len(history) : history[i].density_field = 0
    /\ returned # None => (returned[1].density_field # 0 <=> last_flag)

C5_Recorded ==
    /\ Len(history) >= 2
    /\ HasField(returned)
    /\ last_op = "run_to_time"

\* t2 > 1.1 * t1 for positive t1, t2, exactly.
ExceedsByTenth(t2, t1) ==
    IF t2.e # t1.e THEN t2.e > t1.e ELSE 10 * t2.m > 11 * t1.m

C7_ReturnedIsCopy ==
    [][ HasField(returned) =>
          /\ returned[1].density_field # density_field
          /\ last_op' = "write" => arrays'[density_field'] = Field
          /\ (last_op' \in {"step", "run_to_time"} /\ density_field' # density_field) =>
                 /\ returned' = returned
                 /\ arrays'[returned[1].density_field] = arrays[returned[1].density_field]
      ]_vars

C7_Written ==
    /\ last_op = "write"
    /\ HasField(returned)
    /\ arrays[returned[1].density_field] = Zeros
    /\ Field # Zeros

\* C8: every snapshot get_current_state built has H_fraction and
\* He_fraction both present or both None, and present exactly when
\* 10 < time < 1200.
C8_AbundanceWindow ==
    \A s \in Snapshots :
        /\ (s.H_fraction # None) <=> (s.He_fraction # None)
        /\ (s.H_fraction # None) <=> (FGt(s.time, F(1000, -2)) /\ FLt(s.time, F(1200, 0)))

C8_AtUpperBound ==
    /\ returned # None
    /\ returned[1].time = F(1200, 0)
    /\ returned[1].H_fraction = None
    /\ \E i \in 1..Len(history) : history[i].H_fraction # None

\* C9: construction raises exactly when the four fractions sum to more than
\* 1.001 or to less than 0.999; an object that is constructed holds the
\* fractions it was given; the default set constructs.
C9_Validation ==
    params_result # "none" =>
        LET total == omega.Omega_m0 + omega.Omega_r0 + omega.Omega_lambda0 + omega.Omega_k0
        IN  /\ params_result = "ValueError" <=> (total > 1001000 \/ total < 999000)
            /\ params_result = "constructed" => params = Some(omega)
            /\ params_result = "ValueError" => params = None
            /\ omega = DefaultParameters => params_result = "constructed"

C9_DefaultConstructed ==
    /\ omega = DefaultParameters
    /\ params_result = "constructed"
    /\ omega.Omega_m0 + omega.Omega_r0 + omega.Omega_lambda0 + omega.Omega_k0 = 1000092

EpochOrder ==
    << "Planck", "GUT", "Electroweak", "QCD", "Lepton", "Nucleosynthesis",
       "Matter-Radiation Equality", "Recombination", "Matter-Dominated" >>
\* 1e27, 1e23, 80e9, 150e6, 1e6, 0.1e6, 1, 0.25 eV
EpochThresholds ==
    << F(1000, 24), F(1000, 20), F(8000, 7), F(1500, 5), F(1000, 3), F(1000, 2),
       F(1000, -3), F(2500, -4) >>

\* C10: the label of T > 0 is the first band, in the fixed order, whose
\* threshold T / eV_to_K strictly exceeds, or Matter-Dominated when it
\* exceeds none; the thresholds descend strictly; 1e15 K is Electroweak.
C10_EpochBands ==
    /\ \A j \in 1..(Len(EpochThresholds) - 1) : FGt(EpochThresholds[j], EpochThresholds[j + 1])
    /\ epoch_out # "none" =>
          /\ \E k \in 1..Len(EpochOrder) :
                /\ epoch_out = EpochOrder[k]
                /\ k <= Len(EpochThresholds) =>
                       FGt(temperature_to_energy_eV(T_in), EpochThresholds[k])
                /\ \A j \in 1..(k - 1) :
                       ~FGt(temperature_to_energy_eV(T_in), EpochThresholds[j])
          /\ T_in = F(1000, 12) => epoch_out = "Electroweak"

C10_ElectroweakAt1e15 == T_in = F(1000, 12) /\ epoch_out = "Electroweak"

\* The place of a label in the taxonomy: Planck 1, Matter-Dominated 9.
EpochIndex(name) == CHOOSE k \in 1..Len(EpochOrder) : EpochOrder[k] = name

\* C11: along a strictly descending sequence of temperatures the index of
\* the label never decreases: for T1 > T2 > 0 sampled in that order,
\* EpochIndex(identify_epoch(T1)) <= EpochIndex(identify_epoch(T2)).
C11_EpochMonotone ==
    \A i \in 1..Len(samples) : \A j \in i..Len(samples) :
        /\ samples[i].epoch \in { EpochOrder[k] : k \in 1..Len(EpochOrder) }
        /\ i < j => /\ FGt(samples[i].T, samples[j].T)
                    /\ FGt(samples[j].T, Zero)
                    /\ EpochIndex(samples[i].epoch) <= EpochIndex(samples[j].epoch)

C11_Descended ==
    /\ Len(samples) >= 3
    /\ samples[1].epoch = samples[2].epoch
    /\ EpochIndex(samples[2].epoch) < EpochIndex(samples[3].epoch)

\* A third of each rest-mass energy, in eV, to four digits.
ThirdOfRestMass ==
    [electron |-> F(1703, 2), muon |-> F(3523, 4), pion |-> F(4667, 4),
     proton |-> F(3128, 5), tau |-> F(5923, 5), W_boson |-> F(2680, 7),
     Z_boson |-> F(3040, 7), Higgs |-> F(4167, 7), top_quark |-> F(5767, 7)]

Close(x, y) == x = y \/ FLe(FAbs(FSub(x, y)), FMul(F(1000, -6), FAbs(y)))

\* C13 (as stated, for arguments that are numbers): both functions raise
\* ValueError for every x <= 0, and for every x > 0 return T0 / x, which is
\* never an infinity or NaN.
C13_NeverInfinite ==
    (reply # None /\ IsFinite(request[1].x)) =>
        /\ LeZero(request[1].x) <=> reply[1] = Raised("ValueError")
        /\ reply[1] # Raised("ValueError") => IsFinite(reply[1])

\* C13 (amended): both functions raise ValueError exactly when x <= 0 and
\* return T0 / x otherwise; the value returned is a finite number whenever
\* x is finite and T0 / x is no larger than the largest float, and is an
\* infinity when T0 / x is larger and NaN when x is NaN.
C13_ScalingOrRangeError ==
    reply # None =>
        /\ LeZero(request[1].x) <=> reply[1] = Raised("ValueError")
        /\ (IsFinite(request[1].x) /\ FGt(request[1].x, Zero)) =>
              IF FGt(request[1].T_today, FMul(FloatMax, FMin(request[1].x, One)))
              THEN reply[1] = PosInf
              ELSE /\ IsFinite(reply[1])
                   /\ Close(FMul(reply[1], request[1].x), request[1].T_today)
        /\ request[1].x = NaN => reply[1] = NaN
        /\ request[1].x = PosInf => reply[1] = Zero
        /\ (request[1].x = One /\ request[1].T_today = F(2725, -3)) => reply[1] = F(2725, -3)

C13_TodayAtUnitScale ==
    /\ request # None /\ reply # None
    /\ request[1].op = "temperature_from_scale_factor"
    /\ request[1].x = One /\ request[1].T_today = F(2725, -3)
    /\ reply[1] = F(2725, -3)

\* C14: calculate_abundances raises exactly when T_freeze_MeV or
\* T_nuc_start_MeV is not positive or time_to_nucleosynthesis is negative,
\* and returns the bundle for every other input.
C14_FailsOutsideDomain ==
    (reply # None /\ request[1].op = "calculate_abundances") =>
        ( (\E exception \in {"ValueError", "RuntimeError", "ZeroDivisionError"} :
               reply[1] = Raised(exception))
          <=> \/ FLe(request[1].T_freeze_MeV, Zero)
              \/ FLe(request[1].T_nuc_start_MeV, Zero)
              \/ FLt(request[1].time_to_nucleosynthesis, Zero) )

\* C15: for a neutron fraction x in [0, 1], helium4_mass_fraction(x) is 2x
\* and hydrogen_mass_fraction of it plus it is exactly 1; every bundle
\* calculate_abundances returns has He4 = 2 * X_n_final and H + He4 = 1.
C15_FractionsSumToOne ==
    reply # None =>
        /\ np_add(reply[1].H, reply[1].He4) = One
        /\ request[1].op = "mass_fractions" =>
              /\ FGe(request[1].neutron_fraction, Zero)
              /\ FLe(request[1].neutron_fraction, One)
              /\ reply[1].He4 = FAdd(request[1].neutron_fraction, request[1].neutron_fraction)
        /\ request[1].op = "calculate_abundances" =>
              reply[1].He4 = np_add(reply[1].X_n_final, reply[1].X_n_final)

\* x and y agree to within `parts` parts in ten thousand of y.
Within(x, y, parts) ==
    FLe(FAbs(FSub(x, y)), FMul(Round(parts, -4), FAbs(y)))

\* C16: density_matter(a) * a^3 is rho_m0 and density_radiation(a) * a^4 is
\* rho_r0 for every a > 0, up to the rounding of the six operations
\* involved; density(a1) / density(a2) is (a2 / a1)^3, respectively
\* (a2 / a1)^4, to within 1%, and is 1000 and 10000 for a1 = 0.1, a2 = 1.
C16_DensityScaling ==
    (reply # None /\ request[1].op \in {"density_matter", "density_radiation"}) =>
        LET n == IF request[1].op = "density_matter" THEN 3 ELSE 4
            rho0 == IF request[1].op = "density_matter"
                    THEN FMul(F(3150, -4), F(8500, -30)) ELSE FMul(F(9200, -8), F(8500, -30))
        IN  /\ FGt(request[1].a1, Zero) /\ FGt(request[1].a2, Zero)
            /\ Within(FMul(reply[1][1], FPow(request[1].a1, n)), rho0, 30)
            /\ Within(FMul(reply[1][2], FPow(request[1].a2, n)), rho0, 30)
            /\ Within(FDiv(reply[1][1], reply[1][2]),
                      FPow(FDiv(request[1].a2, request[1].a1), n), 100)
            /\ (request[1].a1 = F(1000, -4) /\ request[1].a2 = One) =>
                   FDiv(reply[1][1], reply[1][2]) = F(1000, n - 3)

C16_TenthAgainstOne ==
    /\ reply # None
    /\ request[1].op = "density_radiation"
    /\ request[1].a1 = F(1000, -4) /\ request[1].a2 = One
    /\ FDiv(reply[1][1], reply[1][2]) = F(1000, 1)

\* C17: for every parameter set with positive matter and radiation
\* fractions find_matter_radiation_equality returns a_eq = rho_r0 / rho_m0,
\* and density_matter(a_eq) and density_radiation(a_eq) of that solver
\* differ by less than 1% of density_matter(a_eq).
C17_EqualityOfDensities ==
    (reply # None /\ request[1].op = "find_matter_radiation_equality") =>
        /\ omega.Omega_m0 > 0 /\ omega.Omega_r0 > 0
        /\ Within(reply[1].a_eq, FDiv(Round(omega.Omega_r0, 0), Round(omega.Omega_m0, 0)), 30)
        /\ FLt(FAbs(FSub(MatterDensity(rho_today(omega.Omega_m0), reply[1].a_eq),
                         RadiationDensity(rho_today(omega.Omega_r0), reply[1].a_eq))),
               FMul(F(1000, -5), MatterDensity(rho_today(omega.Omega_m0), reply[1].a_eq)))

C17_RadiationHeavy ==
    /\ reply # None
    /\ request[1].op = "find_matter_radiation_equality"
    /\ omega.Omega_r0 > omega.Omega_m0
    /\ FGt(reply[1].a_eq, One)

\* C18: every solve call calls the integrator exactly once; when the
\* integrator reports failure the call raises RuntimeError carrying the
\* integrator's message and stores nothing; when it reports success the
\* call stores and returns the integrator's trajectory with success = TRUE.
C18_SolveSurfacesFailure ==
    [][ /\ integrator' # integrator =>
              /\ Len(integrator') = Len(integrator) + 1
              /\ SubSeq(integrator', 1, Len(integrator)) = integrator
              /\ request'[1].op = "solve"
              /\ IF integrator'[Len(integrator')].success
                 THEN /\ ~IsRaise(reply'[1])
                      /\ reply'[1].success = TRUE
                      /\ reply'[1].time = integrator'[Len(integrator')].t
                      /\ reply'[1].scale_factor = integrator'[Len(integrator')].y
                      /\ solver'.scale_factor_history = integrator'[Len(integrator')].y
                 ELSE /\ reply'[1] =
                           RaisedWith("RuntimeError",
                                      <<"ODE solver failed: ", integrator'[Len(integrator')].message>>)
                      /\ solver' = solver
        /\ (request'[1].op = "solve" /\ <<request', reply', solver'>> # <<request, reply, solver>>)
              => integrator' # integrator
      ]_vars

\* A failed solve after a successful one: the error is raised and the
\* earlier trajectory is still stored.
C18_FailedAfterSolved ==
    /\ Len(integrator) = 2
    /\ integrator[1].success /\ ~integrator[2].success
    /\ request[1].op = "solve"
    /\ IsRaise(reply[1])
    /\ solver.scale_factor_history = integrator[1].y

\* C19: validate_solution returns TRUE only when the Hubble check and the
\* two density-scaling checks all pass on the stored trajectory, and
\* FALSE when one of them fails or when no trajectory is stored.
C19_PassMeansAllChecks ==
    (reply # None /\ request[1].op = "validate_solution") =>
        ( reply[1].returned <=>
            /\ Len(solver.time_history) > 0
            /\ \A k \in 1..Len(reply[1].printed) : reply[1].printed[k] )

\* C20: constructing the controller with any positive grid_size succeeds,
\* with a field of grid_size x grid_size x grid_size cells seeded by the
\* five octaves 1, 2, 4, 8, 16, the configured start time and scale factor
\* and an empty history.
C20_ConstructsEveryGrid ==
    (reply # None /\ request[1].op = "Universe"
        /\ GridSizeOf(request[1].config) > 0) =>
        /\ ~IsRaise(reply[1])
        /\ reply[1].density_field.shape = Cube(GridSizeOf(request[1].config))
        /\ reply[1].density_field.octaves = NoiseScales
        /\ reply[1].current_time = request[1].config.simulation.start_time
        /\ reply[1].current_scale_factor = request[1].config.initial_conditions.scale_factor
        /\ reply[1].history = << >>

\* The array a heap-and-slot result is bound to.
ValueOf(c) == c.heap[c.ref]

\* a + H(a) * a * dt
ScaleAfter(a, dt) ==
    Computed(hubble_parameter(a), LAMBDA H : FAdd(a, FMul(FMul(H, a), dt)))

\* The field a step of dt leaves of `field` before any collapse, the growth
\* rate taken at scale factor a1.
GrownAt(field, a1, dt) ==
    Computed(get_perturbation_growth_rate(a1, field), LAMBDA growth_rate :
        Evolve(field, growth_rate, dt))

\* apply_gravitational_collapse(dt) run on `field` at scale factor a.
CollapseOf(field, a, dt) ==
    ValueOf(apply_gravitational_collapse(<<field>>, 1, {}, a, dt))

IsCall(req, op) == req # None /\ req[1].op = op

\* The grown field, as it is or collapsed at scale factor a1.
GrownOrCollapsed(grown, a1, dt) == { grown, CollapseOf(grown, a1, dt) }

\* The grown field, collapsed at scale factor a1 when its mean absolute
\* contrast exceeds 0.1.
CollapsedAboveTenth(grown, a1, dt) ==
    IF FGt(MeanAbsContrast(grown), F(1000, -4)) THEN CollapseOf(grown, a1, dt) ELSE grown

\* C21: step(dt) adds dt to current_time and H(a_old) * a_old * dt to
\* current_scale_factor, and the field it leaves is the old field grown at
\* the rate taken at the updated scale factor and the old field, collapsed
\* or not at the updated scale factor.
C21_StepAdvance ==
    [][ \A dt \in FieldSteps :
          (IsCall(request', "step") /\ request'[1].dt = dt /\ ncalls' # ncalls) =>
            /\ current_time' = FAdd(current_time, dt)
            /\ current_scale_factor' = ScaleAfter(current_scale_factor, dt)
            /\ arrays'[density_field'] \in
                   Computed(ScaleAfter(current_scale_factor, dt), LAMBDA a1 :
                   Computed(GrownAt(arrays[density_field], a1, dt), LAMBDA grown :
                       GrownOrCollapsed(grown, a1, dt)))
      ]_vars

\* A long step from the constructed controller at scale factor 1: the
\* scale factor has grown a thousandfold and the contrasts with it.
C21_LongStep ==
    /\ IsCall(request, "step") /\ ncalls = 1
    /\ request[1].dt = F(1000, 18)
    /\ current_time = F(1000, 18)
    /\ FGt(current_scale_factor, F(1000, 0))
    /\ FGt(np_max(np_abs(Contrast(arrays[density_field]))), F(1000, -4))

\* The boost of the claim: 1 up to a mean of 0.1, 1 + 2 * mean up to 1.0,
\* 2 + mean above.
BoostOf(mean) ==
    IF FLe(mean, F(1000, -4)) THEN One
    ELSE IF FLe(mean, One) THEN FAdd(One, FMul(F(2000, -3), mean))
    ELSE FAdd(F(2000, -3), mean)

ContrastLevels ==
    { Zero, F(5000, -5), F(1000, -4), F(1001, -4), F(5000, -4), F(9999, -4), One,
      F(1001, -3), F(2000, -3), F(1000, -1) }

C23_NoOpUpToHalf ==
    [][ ( /\ IsCall(request', "apply_gravitational_collapse")
          /\ ncalls' # ncalls
          /\ FLe(MatterFraction(current_scale_factor), F(5000, -4)) ) =>
            arrays'[density_field'] = arrays[density_field]
      ]_vars

\* The field with the clipped change added, blended with its smoothed copy
\* by blend_factor, and floored.
FlooredField(field) == Array([n \in CellIds |-> FMax(field[n], F(1000, -5))])

BlendOfContrast(delta, blend_factor) ==
    Computed(gaussian_filter(delta), LAMBDA delta_smoothed :
    Computed(Blended(delta, delta_smoothed, blend_factor), LAMBDA blended :
        FlooredField(blended)))

BlendOfChanged(changed, blend_factor) ==
    Computed(Contrast(changed), LAMBDA delta : BlendOfContrast(delta, blend_factor))

FieldPlus(field, change) == Array([n \in CellIds |-> FAdd(field[n], change[n])])

ChangedField(field, a, dt) ==
    Computed(Contrast(field), LAMBDA delta :
    Computed(laplace(delta), LAMBDA gravitational_force :
    Computed(DensityChange(CollapseStrength(MatterFraction(a), dt), gravitational_force),
             LAMBDA density_change : FieldPlus(field, density_change))))

\* The fields the claim allows apply_gravitational_collapse(dt) to leave
\* when the largest contrast exceeds 1: the blend weight taken from the
\* contrasts before or after the change was added.
LargestContrast(field) ==
    Computed(Contrast(field), LAMBDA delta : np_max(np_abs(delta)))

BlendsOfChanged(field, changed) ==
    Computed(BlendFactor(LargestContrast(field)), LAMBDA before_change :
    Computed(BlendFactor(LargestContrast(changed)), LAMBDA after_change :
        { BlendOfChanged(changed, before_change), BlendOfChanged(changed, after_change) }))

AfterCollapse(field, changed) ==
    IF FGt(LargestContrast(field), One)
    THEN BlendsOfChanged(field, changed)
    ELSE { FlooredField(changed) }

\* C24: when apply_gravitational_collapse runs with a matter fraction above
\* 0.5, the field it leaves is the field with the clipped change added,
\* floored, and, when the largest contrast exceeds 1, blended with its
\* smoothed copy after the change was added.
C24_ChangeSurvivesBlend ==
    [][ \A dt \in CollapseSteps :
          ( /\ IsCall(request', "apply_gravitational_collapse")
            /\ request'[1].dt = dt
            /\ ncalls' # ncalls
            /\ FGt(MatterFraction(current_scale_factor), F(5000, -4)) ) =>
              arrays'[density_field'] \in
                  Computed(ChangedField(arrays[density_field], current_scale_factor, dt),
                           LAMBDA changed : AfterCollapse(arrays[density_field], changed))
      ]_vars

\* C29: step(dt) leaves the field grown by the uniform scaling alone when
\* the mean absolute contrast after the growth is 0.1 or less, and the
\* field apply_gravitational_collapse makes of the grown field when it is
\* above 0.1.
C29_CollapseAboveTenth ==
    [][ \A dt \in FieldSteps :
          (IsCall(request', "step") /\ request'[1].dt = dt /\ ncalls' # ncalls) =>
            arrays'[density_field'] =
                Computed(ScaleAfter(current_scale_factor, dt), LAMBDA a1 :
                Computed(GrownAt(arrays[density_field], a1, dt), LAMBDA grown :
                    CollapsedAboveTenth(grown, a1, dt)))
      ]_vars

\* A long step in the matter era that scaled the contrasts a thousandfold
\* and left their mean at 0.1 or less: no cell was clipped or floored.
C29_GrownNotCollapsed ==
    /\ IsCall(request, "step") /\ ncalls = 1
    /\ request[1].dt = F(1000, 18)
    /\ FGt(MatterFraction(current_scale_factor), F(5000, -4))
    /\ FGt(np_max(np_abs(Contrast(arrays[density_field]))), F(1000, -4))
    /\ FLe(MeanAbsContrast(arrays[density_field]), F(1000, -4))

\* current_time / last.time > 1.1, as run_to_time tests it (false for a
\* last time of 0, where the division raises and nothing is appended).
GrownByTenth(t, last) == last.time.m # 0 /\ FGt(FDiv(t, last.time), F(1100, -3))

\* C25: a step of run_to_time appends a snapshot exactly when the history
\* was empty or current_time / history[-1].time > 1.1; after the step the
\* last entry has the time current_time or current_time has not grown past
\* 1.1 times its time; the first step of a fresh controller appends.
C25_RecordWhenGrown ==
    [][ (pc = "loop" /\ iterations' = iterations + 1) =>
            /\ (history' # history) <=>
                  (Len(history) = 0 \/ GrownByTenth(current_time', history[Len(history)]))
            /\ history' # history =>
                  /\ Len(history') = Len(history) + 1
                  /\ SubSeq(history', 1, Len(history)) = history
                  /\ history'[Len(history')].time = current_time'
            /\ Len(history') > 0
            /\ \/ history'[Len(history')].time = current_time'
               \/ ~GrownByTenth(current_time', history'[Len(history')])
      ]_vars

\* Inside the first call: the first step recorded, later steps did not,
\* and the step just made recorded again.
C25_RecordedAgain ==
    /\ pc = "loop" /\ ncalls = 1
    /\ Len(history) = 2
    /\ iterations > 2
    /\ history[2].time = current_time

\* C26: from a positive start time on, the scale factor is positive, H at
\* it is not negative, and no step of the controller lowers the scale
\* factor or the time.
C26_NeverContracts ==
    [][ FGt(current_time, Zero) =>
            /\ FGt(current_scale_factor, Zero)
            /\ FGe(hubble_parameter(current_scale_factor), Zero)
            /\ FGt(current_scale_factor', Zero)
            /\ FGe(current_scale_factor', current_scale_factor)
            /\ FGe(current_time', current_time)
      ]_vars

\* A run from 1e20 s to 1.1e20 s has returned with the scale factor grown.
C26_Expanded ==
    /\ pc = "idle" /\ last_op = "run_to_time" /\ outcome = "returned"
    /\ current_time = F(1100, 17)
    /\ FGt(current_scale_factor, One)
    /\ Len(history) > 0 /\ FLt(history[1].scale_factor, current_scale_factor)

\* The statistics of snapshot s are those of `field`.
StatisticsOf(s, field) ==
    /\ s.density_max = np_max(Contrast(field))
    /\ s.density_min = np_min(Contrast(field))
    /\ s.density_rms = np_std(Contrast(field))
    /\ FLe(s.density_min, s.density_max)

\* C27: every snapshot built, whether handed to the caller or appended to
\* the history, carries the maximum, minimum and standard deviation of
\* (cell - 1) over the controller's field as it is when the snapshot is
\* built, with minimum <= maximum; an included field is that field.
C27_StatisticsOfCurrentField ==
    [][ /\ (returned' # None /\ returned' # returned) =>
              /\ StatisticsOf(returned'[1], arrays'[density_field'])
              /\ returned'[1].density_field # 0 =>
                    /\ arrays'[returned'[1].density_field] = arrays'[density_field']
                    /\ StatisticsOf(returned'[1], arrays'[returned'[1].density_field])
        /\ Len(history') > Len(history) =>
              StatisticsOf(history'[Len(history')], arrays'[density_field'])
      ]_vars

\* The field has changed between two snapshots: the later one, returned
\* with its field, has a deeper minimum than the first one recorded.
C27_DeeperMinimum ==
    /\ HasField(returned) /\ last_op = "run_to_time" /\ pc = "idle"
    /\ Len(history) >= 1
    /\ FLt(returned[1].density_min, history[1].density_min)
    /\ FLt(returned[1].density_min, returned[1].density_max)

\* C28: get_current_state, with either flag, leaves current_time,
\* current_scale_factor, the controller's field (the array and every cell
\* of it) and the history with everything it holds as they were.
C28_ReadOnly ==
    [][ last_op' = "get_current_state" =>
            /\ current_time' = current_time
            /\ current_scale_factor' = current_scale_factor
            /\ density_field' = density_field
            /\ arrays'[density_field'] = arrays[density_field]
            /\ history' = history
            /\ HistoryValue(history', arrays') = HistoryValue(history, arrays)
            /\ pc' = pc
      ]_vars

\* A statistics-only snapshot asked for after a run that recorded history
\* and whose returned snapshot carried a field.
C28_AskedAfterRun ==
    /\ last_op = "get_current_state" /\ ~last_flag
    /\ returned # None /\ returned[1].density_field = 0
    /\ Len(history) > 0
    /\ ncalls = 2

\* C30: every snapshot that carries abundances has He_fraction and
\* H_fraction between 0 and 1; its time lies inside 10 < time < 1200, so
\* the elapsed time current_time - 1 handed to calculate_abundances is not
\* negative, the ratio frozen at 0.7 MeV is below 1, the neutron fraction
\* after decay is below 0.5, and He_fraction is twice that fraction.
InUnit(x) == FGe(x, Zero) /\ FLe(x, One)

C30_FractionsInUnit ==
    \A s \in Snapshots :
        s.He_fraction # None \/ s.H_fraction # None =>
            LET elapsed == FSub(s.time, One)
                n_p_freeze == freeze_out_ratio(F(7000, -4))
                X_n == neutron_fraction_with_decay(n_p_freeze, elapsed).neutron_frac
            IN  /\ InUnit(s.He_fraction[1])
                /\ InUnit(s.H_fraction[1])
                /\ FGe(elapsed, Zero)
                /\ FLt(n_p_freeze, One)
                /\ FLt(X_n, F(5000, -4))
                /\ s.He_fraction[1] = helium4_mass_fraction(X_n)
                /\ FLt(s.He_fraction[1], One)

C30_LateAbundances ==
    \E i \in 1..Len(history) :
        /\ history[i].He_fraction # None
        /\ FGt(history[i].time, F(1190, 0))
        /\ FGt(history[i].He_fraction[1], Zero)
        /\ FGt(history[i].H_fraction[1], history[i].He_fraction[1])

====
